---- MODULE Spec2Model ----
(***************************************************************************)
(* Verification model of the USDG exchange tracker: the volume aggregator, *)
(* the metrics calculator, the historical log (daily append, backfill,     *)
(* reader), the period summarizer, the depth table and the cached routes.  *)
(* Specifications:                                                         *)
(* SpecAgg (one aggregation cycle), SpecMetrics (one metrics calculation), *)
(* SpecLog (the scheduled job and the backfill script over time), SpecRead *)
(* (reading a log file), SpecBackfill (backfill runs over a log the daily  *)
(* job has kept), SpecSummary (the weekly and monthly views), SpecCalc     *)
(* (the depth utilities), SpecDepth (one depth request), SpecCache (the    *)
(* requests of the cached routes over time).                               *)
(*                                                                         *)
(* Representation.  A calendar date "YYYY-MM-DD" is its day number (an     *)
(* integer): String.localeCompare and <= on zero-padded ISO dates order    *)
(* exactly as the day numbers do.  An instant is a number of ticks,        *)
(* TicksPerDay ticks a day; the last tick of a day is 23:59 UTC.  Volumes  *)
(* are integers (sums of integers below 2^53 are exact in a JS double).    *)
(* A quotient a/b is kept as the pair [num |-> a, den |-> b] and compared  *)
(* by cross-multiplication.                                                *)
(***************************************************************************)
EXTENDS Integers, Sequences, FiniteSets, TLC

\* ------------------------------------------------------------------ bounds
MaxDates == 2
MaxPoints == 2
MaxSeriesLen == 32
MaxDay == 2
MaxLog == 2
MaxRunning == 2
MaxLines == 4
MaxEntries == 3
MaxLevels == 2
MaxBooks == 2
MaxClock == 6
MaxRequests == 3

\* --------------------------------------------------------- program constants
EXCHANGES == <<"kraken", "bullish", "gate", "kucoin", "bitmart", "okx">>

ExchangeNames == {EXCHANGES[i] : i \in 1..Len(EXCHANGES)}

Days7 == 7
Days30 == 30
AvgDivisor == 30
Threshold1M == 1000000
Threshold5M == 5000000
Threshold25M == 25000000
TicksPerDay == 2
DefaultWeeks == 4

\* ------------------------------------------------------------ input domains
AggDates == 1..MaxDates
AggVols == {60, 40}
PairLists == {<<>>, <<"USDG/USD">>}

VARIABLES
  settled,          \* exchange -> "pending" or the settled promise of getAggregatedVolume
  aggPc,            \* "fetching" | "done" | "failed" : the aggregation cycle
  aggOut,           \* the aggregator's output {dailyVolume, exchanges, pairsByExchange}
  series,           \* a unified daily series handed to the metrics calculator
  mPairs,           \* the pairsByExchange handed to the metrics calculator
  averages,         \* result of calculateExchangeAverages(series, EXCHANGES)
  metrics,          \* result of calculateAllMetrics
  mPc,              \* "input" | "done" : the metrics calculation
  now,              \* the clock, in ticks
  logFile,          \* weekly-metrics.jsonl: the sequence of its lines
  jobsRunning,      \* number of runMetricsJob executions awaiting their fetch
  cronFired,        \* the cron expression has fired for the current 23:59
  lastRun,          \* "none" | "ok" | "error" : how the last finished runMetricsJob ended
  bf,               \* the backfill script: its position and its local variables
  readOut,          \* result of the last readMetricsLog()
  summary,          \* the response of the last GET /api/metrics/weekly or /monthly
  calc,             \* the depth utilities: their arguments and their results
  depth,            \* GET /api/depth: the per-exchange loops and the rows
  api               \* the cached routes: the clock, the cache, the fetches in flight

aggVars == <<settled, aggPc, aggOut>>
metVars == <<series, mPairs, averages, metrics, mPc>>
logVars == <<now, logFile, jobsRunning, cronFired, lastRun, bf, readOut>>
apiVars == <<summary, calc, depth, api>>
vars == <<aggVars, metVars, logVars, apiVars>>

\* ----------------------------------------------------------------- helpers
RECURSIVE SumSeq(_)
SumSeq(s) == IF s = <<>> THEN 0 ELSE Head(s) + SumSeq(Tail(s))

RECURSIVE SumFun(_, _)
SumFun(f, S) ==
  IF S = {} THEN 0
  ELSE LET x == CHOOSE y \in S : TRUE IN f[x] + SumFun(f, S \ {x})

SeqToSet(s) == {s[i] : i \in 1..Len(s)}

EmptyMap == [x \in {} |-> 0]

\* ------------------------------------------------------ Volume Aggregator
\* The settled promises of one exchange: rejected, or fulfilled with
\* {exchange, pairs, dailyVolume}.  A service builds dailyVolume from a Map
\* keyed by date and sorts it: dates are unique and ascending; it returns an
\* empty series when it found no pair.
RECURSIVE AscSeries(_, _)
AscSeries(from, n) ==
  {<<>>} \cup
  IF n = 0 THEN {}
  ELSE UNION {{<<[date |-> d, volume |-> v]>> \o rest : rest \in AscSeries(d + 1, n - 1)}
                : d \in {e \in AggDates : e >= from}, v \in AggVols}

Rejected == [status |-> "rejected"]

Fulfilled(x, pairs, dv) ==
  [status |-> "fulfilled", exchange |-> x, pairs |-> pairs, dailyVolume |-> dv]

Outcomes(x, budget) ==
  {Rejected} \cup
  {Fulfilled(x, c[1], c[2]) :
     c \in {pd \in PairLists \X AscSeries(1, budget) : pd[1] = <<>> => pd[2] = <<>>}}

\* .catch(err => ({ exchange: exchangeName, pairs: [], dailyVolume: [] }))
\* The result carries status "ok"; a promise left rejected makes Promise.all reject.
\* (a handler that logs and throws again)
CatchResultRethrows(x, o) ==
  IF o.status = "rejected"
  THEN [status |-> "rejected", exchange |-> x, pairs |-> <<>>, dailyVolume |-> <<>>]
  ELSE [status |-> "ok", exchange |-> o.exchange, pairs |-> o.pairs, dailyVolume |-> o.dailyVolume]

CatchResult(x, o) ==
  IF o.status = "rejected"
  THEN [status |-> "ok", exchange |-> x, pairs |-> <<>>, dailyVolume |-> <<>>]
  ELSE [status |-> "ok", exchange |-> o.exchange, pairs |-> o.pairs, dailyVolume |-> o.dailyVolume]

\* volumeByDate is a Map: here the sequence of its entries in insertion order.
MapIndex(m, date) ==
  IF \E i \in 1..Len(m) : m[i].date = date
  THEN CHOOSE i \in 1..Len(m) : m[i].date = date
  ELSE 0

\* const existing = volumeByDate.get(day.date) || { volume: 0, byExchange: {} };
\* existing.volume += day.volume; existing.byExchange[exchangeName] = day.volume;
\* volumeByDate.set(day.date, existing);
\* (existing.volume = day.volume in the place of +=)
AccumulateDayOverwrites(m, exchangeName, day) ==
  LET i == MapIndex(m, day.date)
      existing == IF i = 0 THEN [date |-> day.date, volume |-> 0, byExchange |-> EmptyMap] ELSE m[i]
      updated == [date |-> day.date,
                  volume |-> day.volume,
                  byExchange |-> (exchangeName :> day.volume) @@ existing.byExchange]
  IN IF i = 0 THEN Append(m, updated) ELSE [m EXCEPT ![i] = updated]

AccumulateDay(m, exchangeName, day) ==
  LET i == MapIndex(m, day.date)
      existing == IF i = 0 THEN [date |-> day.date, volume |-> 0, byExchange |-> EmptyMap] ELSE m[i]
      updated == [date |-> day.date,
                  volume |-> existing.volume + day.volume,
                  byExchange |-> (exchangeName :> day.volume) @@ existing.byExchange]
  IN IF i = 0 THEN Append(m, updated) ELSE [m EXCEPT ![i] = updated]

RECURSIVE AccumulateSeries(_, _, _)
AccumulateSeries(m, exchangeName, dv) ==
  IF dv = <<>> THEN m
  ELSE AccumulateSeries(AccumulateDay(m, exchangeName, Head(dv)), exchangeName, Tail(dv))

\* for (const exchangeData of results) { pairsByExchange[name] = pairs; for (const day ...) }
RECURSIVE MergeLoop(_, _, _)
MergeLoop(results, m, pairsByExchange) ==
  IF results = <<>> THEN [volumeByDate |-> m, pairsByExchange |-> pairsByExchange]
  ELSE LET r == Head(results)
       IN MergeLoop(Tail(results),
                    AccumulateSeries(m, r.exchange, r.dailyVolume),
                    (r.exchange :> r.pairs) @@ pairsByExchange)

\* .sort((a, b) => a.date.localeCompare(b.date))
RECURSIVE InsertByDate(_, _)
InsertByDate(sorted, e) ==
  IF sorted = <<>> THEN <<e>>
  ELSE IF e.date < Head(sorted).date THEN <<e>> \o sorted
  ELSE <<Head(sorted)>> \o InsertByDate(Tail(sorted), e)

\* (the Map's insertion order, no sort)
NoSortByDate(s) == s

RECURSIVE SortByDate(_)
SortByDate(s) ==
  IF s = <<>> THEN <<>>
  ELSE InsertByDate(SortByDate(SubSeq(s, 1, Len(s) - 1)), s[Len(s)])

\* fetchAggregatedData / the body of GET /api/aggregated / fetchAllHistoricalData:
\* outcomes is the sequence of settled promises, in EXCHANGES order.
fetchAggregatedData(outcomes) ==
  LET results == [i \in 1..Len(outcomes) |-> CatchResult(EXCHANGES[i], outcomes[i])]
      merged == MergeLoop(results, <<>>, EmptyMap)
  IN IF \E i \in 1..Len(results) : results[i].status = "rejected"
     THEN [failed |-> TRUE, dailyVolume |-> <<>>, exchanges |-> EXCHANGES, pairsByExchange |-> EmptyMap]
     ELSE
       [failed |-> FALSE,
        dailyVolume |-> SortByDate(merged.volumeByDate),
        exchanges |-> EXCHANGES,
        pairsByExchange |-> merged.pairsByExchange]

\* ------------------------------------------------------ Metrics Calculator
\* dailyVolume.slice(-n), n > 0
\* (slice(0, n) in its place)
SliceFirst(s, n) == IF Len(s) <= n THEN s ELSE SubSeq(s, 1, n)

Slice(s, n) == IF Len(s) <= n THEN s ELSE SubSeq(s, Len(s) - n + 1, Len(s))

\* lastNDays.reduce((sum, day) => sum + day.volume, 0)
calculateNDayVolume(dailyVolume, days) ==
  LET lastNDays == Slice(dailyVolume, days)
  IN SumSeq([i \in 1..Len(lastNDays) |-> lastNDays[i].volume])

\* reduce((sum, day) => sum + (day.byExchange?.[exchange] || 0), 0)
ExchangeTotal(days, exchange) ==
  SumSeq([i \in 1..Len(days) |->
            IF exchange \in DOMAIN days[i].byExchange THEN days[i].byExchange[exchange] ELSE 0])

\* (the last 7 entries in the place of the last 30)
countActiveExchangesLastWeek(dailyVolume, exchanges) ==
  LET last7Days == Slice(dailyVolume, Days7)
  IN Cardinality({i \in 1..Len(exchanges) : ExchangeTotal(last7Days, exchanges[i]) > 0})

countActiveExchanges(dailyVolume, exchanges) ==
  LET last30Days == Slice(dailyVolume, Days30)
  IN Cardinality({i \in 1..Len(exchanges) : ExchangeTotal(last30Days, exchanges[i]) > 0})

\* Object.values(pairsByExchange).flat().length
countTotalPairs(pairsByExchange) ==
  SumFun([x \in DOMAIN pairsByExchange |-> Len(pairsByExchange[x])], DOMAIN pairsByExchange)

\* averages[exchange] = last30Days.length > 0 ? totalVolume / 30 : 0
\* (totalVolume / last30Days.length in its place)
calculateExchangeAveragesByCount(dailyVolume, exchanges) ==
  LET last30Days == Slice(dailyVolume, Days30)
  IN [x \in SeqToSet(exchanges) |->
        IF Len(last30Days) > 0
        THEN [num |-> ExchangeTotal(last30Days, x), den |-> Len(last30Days)]
        ELSE [num |-> 0, den |-> 1]]

calculateExchangeAverages(dailyVolume, exchanges) ==
  LET last30Days == Slice(dailyVolume, Days30)
  IN [x \in SeqToSet(exchanges) |->
        IF Len(last30Days) > 0
        THEN [num |-> ExchangeTotal(last30Days, x), den |-> AvgDivisor]
        ELSE [num |-> 0, den |-> 1]]

\* avg >= k and avg < k for a quotient avg and an integer k
AvgGE(avg, k) == avg.num >= k * avg.den
AvgLT(avg, k) == avg.num < k * avg.den

\* values.filter(avg => avg >= 1_000_000 && avg < 5_000_000).length, ...
\* (avg <= 5_000_000 in the first filter)
countExchangesByThresholdInclusive(exchangeAverages) ==
  LET values == DOMAIN exchangeAverages
  IN [k \in {"1Mto5M", "5Mto25M", "over25M"} |->
       CASE k = "1Mto5M" ->
              Cardinality({x \in values : AvgGE(exchangeAverages[x], Threshold1M)
                                          /\ exchangeAverages[x].num <= Threshold5M * exchangeAverages[x].den})
         [] k = "5Mto25M" ->
              Cardinality({x \in values : AvgGE(exchangeAverages[x], Threshold5M)
                                          /\ AvgLT(exchangeAverages[x], Threshold25M)})
         [] OTHER ->
              Cardinality({x \in values : AvgGE(exchangeAverages[x], Threshold25M)})]

countExchangesByThreshold(exchangeAverages) ==
  LET values == DOMAIN exchangeAverages
  IN [k \in {"1Mto5M", "5Mto25M", "over25M"} |->
       CASE k = "1Mto5M" ->
              Cardinality({x \in values : AvgGE(exchangeAverages[x], Threshold1M)
                                          /\ AvgLT(exchangeAverages[x], Threshold5M)})
         [] k = "5Mto25M" ->
              Cardinality({x \in values : AvgGE(exchangeAverages[x], Threshold5M)
                                          /\ AvgLT(exchangeAverages[x], Threshold25M)})
         [] OTHER ->
              Cardinality({x \in values : AvgGE(exchangeAverages[x], Threshold25M)})]

calculateAllMetrics(aggregatedData) ==
  [volume7Day |-> calculateNDayVolume(aggregatedData.dailyVolume, Days7),
   volume30Day |-> calculateNDayVolume(aggregatedData.dailyVolume, Days30),
   activeExchanges |-> countActiveExchanges(aggregatedData.dailyVolume, aggregatedData.exchanges),
   totalPairs |-> countTotalPairs(aggregatedData.pairsByExchange),
   exchangeThresholds |->
     countExchangesByThreshold(
       calculateExchangeAverages(aggregatedData.dailyVolume, aggregatedData.exchanges))]

\* --------------------------------------------------------- Historical Log
\* date.toISOString().split('T')[0]: the calendar date of an instant
DateOf(ts) == ts \div TicksPerDay

\* the instant 23:59:00.000 UTC of a calendar date
At2359(date) == date * TicksPerDay + (TicksPerDay - 1)

\* A line of the file: the JSON text of a LogEntry ("entry"), the JSON text
\* null ("null"), an empty line ("empty"), or text that is not JSON
\* ("garbage", such as a partially written line).
LogLine(ts, m) == [kind |-> "entry", timestamp |-> ts, metrics |-> m]

\* JSON.parse(line)
JSONParse(line) ==
  CASE line.kind = "entry" -> [ok |-> TRUE, isNull |-> FALSE, timestamp |-> line.timestamp, metrics |-> line.metrics]
    [] line.kind = "null" -> [ok |-> TRUE, isNull |-> TRUE, timestamp |-> 0, metrics |-> line.metrics]
    [] OTHER -> [ok |-> FALSE, isNull |-> FALSE, timestamp |-> 0, metrics |-> line.metrics]

\* content.trim().split('\n').filter(Boolean)
NonEmptyLines(content) == SelectSeq(content, LAMBDA l : l.kind # "empty")

\* fs.writeFileSync in the place of fs.appendFileSync
appendToLogTruncating(file, ts, m) == <<LogLine(ts, m)>>

\* appendToLog: fs.appendFileSync(LOG_FILE, JSON.stringify({timestamp, metrics}) + '\n')
appendToLog(file, ts, m) == Append(file, LogLine(ts, m))

\* runMetricsJob once fetchAggregatedData() has settled: calculateAllMetrics,
\* appendToLog; an exception (a rejected fetch, a file that cannot be
\* written) is caught and logged, and the function returns normally.
\* (no try/catch: the rejection reaches the process, which exits)
runMetricsJobUncaught(file, t, outcomes, writable) ==
  LET aggregatedData == fetchAggregatedData(outcomes)
  IN IF aggregatedData.failed \/ ~writable
     THEN [file |-> file, lastRun |-> "crashed"]
     ELSE [file |-> appendToLog(file, t, calculateAllMetrics(aggregatedData)), lastRun |-> "ok"]

\* (a run that found no data gives up in the place of logging zeros)
runMetricsJobNeedsData(file, t, outcomes, writable) ==
  LET aggregatedData == fetchAggregatedData(outcomes)
  IN IF aggregatedData.failed \/ ~writable \/ aggregatedData.dailyVolume = <<>>
     THEN [file |-> file, lastRun |-> "error"]
     ELSE [file |-> appendToLog(file, t, calculateAllMetrics(aggregatedData)), lastRun |-> "ok"]

runMetricsJob(file, t, outcomes, writable) ==
  LET aggregatedData == fetchAggregatedData(outcomes)
  IN IF aggregatedData.failed \/ ~writable
     THEN [file |-> file, lastRun |-> "error"]
     ELSE [file |-> appendToLog(file, t, calculateAllMetrics(aggregatedData)), lastRun |-> "ok"]

\* What calculateMetricsForDate has computed when it reaches its return
\* statement: exchangeAverages[exchange] = last30Days.length > 0 ?
\* totalVolume / Math.min(30, last30Days.length) : 0, and the three filters
\* over Object.values(exchangeAverages).
MetricsForDateLocals(targetDate, dailyVolume) ==
  LET dataUpToDate == SelectSeq(dailyVolume, LAMBDA d : d.date <= targetDate)
      last30Days == Slice(dataUpToDate, Days30)
      divisor == IF Days30 < Len(last30Days) THEN Days30 ELSE Len(last30Days)
      exchangeAverages ==
        [x \in ExchangeNames |->
           IF Len(last30Days) > 0
           THEN [num |-> ExchangeTotal(last30Days, x), den |-> divisor]
           ELSE [num |-> 0, den |-> 1]]
  IN [exchangeAverages |-> exchangeAverages,
      exchangeThresholds |-> countExchangesByThreshold(exchangeAverages)]

\* calculateMetricsForDate: null when no series entry is dated <= targetDate;
\* otherwise the object literal of the return statement reads volume30Day,
\* which the script declares nowhere: a ReferenceError is thrown.
calculateMetricsForDate(targetDate, dailyVolume, pairsByExchange) ==
  LET dataUpToDate == SelectSeq(dailyVolume, LAMBDA d : d.date <= targetDate)
  IN IF Len(dataUpToDate) = 0
     THEN [kind |-> "null"]
     ELSE [kind |-> "ReferenceError"]

\* getPastDates with the loop for (i = weeks * 7 - 1; i >= 0; i--): today included
getPastDatesFromToday(weeks, t) ==
  [k \in 1..(weeks * 7) |->
     LET i == weeks * 7 - k
         date == At2359(DateOf(t) - i)
     IN [dateStr |-> DateOf(date), timestamp |-> date]]

\* getPastDates(weeks): for (i = weeks * 7; i >= 1; i--) the day i days before
\* today, at 23:59 UTC
getPastDates(weeks, t) ==
  [k \in 1..(weeks * 7) |->
     LET i == weeks * 7 - k + 1
         date == At2359(DateOf(t) - i)
     IN [dateStr |-> DateOf(date), timestamp |-> date]]

\* existingTimestamps, with the whole timestamp kept in the place of its date part
ExistingTimestampsExactInstant(content) ==
  LET lines == NonEmptyLines(content)
  IN {JSONParse(lines[i]).timestamp :
        i \in {j \in 1..Len(lines) : JSONParse(lines[j]).ok /\ ~JSONParse(lines[j]).isNull}}

\* existingTimestamps: the date part of the timestamp of every line that
\* parses; a line on which JSON.parse or entry.timestamp.split throws is skipped
ExistingTimestamps(content) ==
  LET lines == NonEmptyLines(content)
  IN {DateOf(JSONParse(lines[i]).timestamp) :
        i \in {j \in 1..Len(lines) : JSONParse(lines[j]).ok /\ ~JSONParse(lines[j]).isNull}}

\* the loop of backfill() over the target dates; an exception leaves the loop
RECURSIVE BackfillLoop(_, _, _, _, _)
BackfillLoop(dates, existing, data, file, acc) ==
  IF dates = <<>> THEN [acc EXCEPT !.pc = "complete", !.file = file]
  ELSE LET d == Head(dates)
       IN IF d.dateStr \in existing
          THEN BackfillLoop(Tail(dates), existing, data, file,
                            [acc EXCEPT !.skipped = @ + 1])
          ELSE LET m == calculateMetricsForDate(d.dateStr, data.dailyVolume, data.pairsByExchange)
                   acc2 == [acc EXCEPT !.attempted = @ \cup {d.dateStr}]
               IN CASE m.kind = "null" ->
                         BackfillLoop(Tail(dates), existing, data, file, acc2)
                    [] m.kind = "ReferenceError" ->
                         [acc2 EXCEPT !.pc = "failed", !.file = file]
                    [] OTHER ->
                         BackfillLoop(Tail(dates), existing, data,
                                      Append(file, LogLine(d.timestamp, m.metrics)),
                                      [acc2 EXCEPT !.added = @ + 1,
                                                   !.written = Append(@, LogLine(d.timestamp, m.metrics))])

\* backfill(weeks) after its fetch: target dates, existing dates, the loop
backfill(weeks, t, data, file) ==
  LET dates == getPastDates(weeks, t)
      existing == ExistingTimestamps(file)
  IN BackfillLoop(dates, existing, data, file,
                  [pc |-> "running", weeks |-> weeks, content |-> file, existing |-> existing,
                   file |-> file, written |-> <<>>, attempted |-> {}, added |-> 0, skipped |-> 0,
                   dailyVolume |-> data.dailyVolume, prevWeeks |-> 0])

\* entries.sort((a, b) => new Date(a.timestamp) - new Date(b.timestamp)); stable
RECURSIVE InsertByTimestamp(_, _)
InsertByTimestamp(sorted, e) ==
  IF sorted = <<>> THEN <<e>>
  ELSE IF e.timestamp < Head(sorted).timestamp THEN <<e>> \o sorted
  ELSE <<Head(sorted)>> \o InsertByTimestamp(Tail(sorted), e)

\* (the order of the lines, no sort)
NoSortByTimestamp(s) == s

RECURSIVE SortByTimestamp(_)
SortByTimestamp(s) ==
  IF s = <<>> THEN <<>>
  ELSE InsertByTimestamp(SortByTimestamp(SubSeq(s, 1, Len(s) - 1)), s[Len(s)])

\* readMetricsLog: every line that JSON.parse accepts is pushed; the sort
\* comparator reads a.timestamp and b.timestamp, a TypeError when it is handed
\* null, which happens as soon as the array has two elements
readMetricsLog(content) ==
  LET lines == NonEmptyLines(content)
      parsed == [i \in 1..Len(lines) |-> JSONParse(lines[i])]
      entries == SelectSeq(parsed, LAMBDA e : e.ok)
  IN IF Len(entries) >= 2 /\ \E i \in 1..Len(entries) : entries[i].isNull
     THEN [status |-> "TypeError", content |-> content, entries |-> <<>>]
     ELSE [status |-> "ok", content |-> content, entries |-> SortByTimestamp(entries)]

\* ------------------------------------------------------ Period Summarizer
\* date.getUTCDay(): 0 is Sunday; day number 0 (1970-01-01) is a Thursday
getUTCDay(date) == (date + 4) % 7

\* getUTCFullYear() and getUTCMonth() + 1 of a day number (proleptic
\* Gregorian calendar)
CivilYearMonth(date) ==
  LET z == date + 719468
      era == z \div 146097
      doe == z - era * 146097
      yoe == (doe - doe \div 1460 + doe \div 36524 - doe \div 146096) \div 365
      doy == doe - (365 * yoe + yoe \div 4 - yoe \div 100)
      mp == (5 * doy + 2) \div 153
      month == IF mp < 10 THEN mp + 3 ELSE mp - 9
      year == yoe + era * 400 + (IF month <= 2 THEN 1 ELSE 0)
  IN [year |-> year, month |-> month]

\* the key "YYYY-MM" as the number YYYYMM, which orders as the strings do
MonthKeyOf(date) == CivilYearMonth(date).year * 100 + CivilYearMonth(date).month

\* a week that starts on Monday
WeekStartOfMonday(date) == date - ((date + 3) % 7)

\* weekStart.setUTCDate(date.getUTCDate() - date.getUTCDay()); setUTCHours(0, 0, 0, 0)
WeekStartOf(date) == date - getUTCDay(date)

\* a Map as the sequence of its [key, value] pairs in insertion order
MapHas(map, key) == \E i \in 1..Len(map) : map[i].key = key

MapGet(map, key) == map[CHOOSE i \in 1..Len(map) : map[i].key = key].value

MapSet(map, key, value) ==
  IF MapHas(map, key)
  THEN [i \in 1..Len(map) |-> IF map[i].key = key THEN [key |-> key, value |-> value] ELSE map[i]]
  ELSE Append(map, [key |-> key, value |-> value])

MapValues(map) == [i \in 1..Len(map) |-> map[i].value]

\* array.sort((a, b) => a[f].localeCompare(b[f])) and its like; stable
RECURSIVE InsertByField(_, _, _)
InsertByField(sorted, e, f) ==
  IF sorted = <<>> THEN <<e>>
  ELSE IF e[f] < Head(sorted)[f] THEN <<e>> \o sorted
  ELSE <<Head(sorted)>> \o InsertByField(Tail(sorted), e, f)

RECURSIVE SortByField(_, _)
SortByField(s, f) ==
  IF s = <<>> THEN <<>>
  ELSE InsertByField(SortByField(SubSeq(s, 1, Len(s) - 1), f), s[Len(s)], f)

\* the loop of groupByWeek over the entries
RECURSIVE WeekLoop(_, _)
WeekLoop(entries, weekMap) ==
  IF entries = <<>> THEN weekMap
  ELSE LET entry == Head(entries)
           weekKey == WeekStartOf(DateOf(entry.timestamp))
       IN IF ~MapHas(weekMap, weekKey) \/ entry.timestamp > MapGet(weekMap, weekKey).timestamp
          THEN WeekLoop(Tail(entries),
                        MapSet(weekMap, weekKey,
                               [weekStart |-> weekKey, weekEnd |-> weekKey + 6,
                                timestamp |-> entry.timestamp, metrics |-> entry.metrics]))
          ELSE WeekLoop(Tail(entries), weekMap)

groupByWeek(entries) == SortByField(MapValues(WeekLoop(entries, <<>>)), "weekStart")

\* groupByMonth without its test of the current month
SkipsNoMonth(monthKey, currentMonth) == FALSE

\* if (monthKey === currentMonth) continue
SkipsCurrentMonth(monthKey, currentMonth) == monthKey = currentMonth

\* the loop of groupByMonth over the entries
RECURSIVE MonthLoop(_, _, _)
MonthLoop(entries, currentMonth, monthMap) ==
  IF entries = <<>> THEN monthMap
  ELSE LET entry == Head(entries)
           monthKey == MonthKeyOf(DateOf(entry.timestamp))
       IN IF SkipsCurrentMonth(monthKey, currentMonth)
          THEN MonthLoop(Tail(entries), currentMonth, monthMap)
          ELSE IF ~MapHas(monthMap, monthKey)
                  \/ entry.timestamp > MapGet(monthMap, monthKey).timestamp
          THEN MonthLoop(Tail(entries), currentMonth,
                         MapSet(monthMap, monthKey,
                                [month |-> monthKey, timestamp |-> entry.timestamp,
                                 metrics |-> entry.metrics]))
          ELSE MonthLoop(Tail(entries), currentMonth, monthMap)

\* (currentMonth taken once, when the module is loaded, in the place of
\* new Date() at each call)
groupByMonthSinceLoad(entries, t) ==
  SortByField(MapValues(MonthLoop(entries, MonthKeyOf(0 - 4), <<>>)), "month")

\* groupByMonth(entries), new Date() being t
groupByMonth(entries, t) ==
  SortByField(MapValues(MonthLoop(entries, MonthKeyOf(DateOf(t)), <<>>)), "month")

\* a / b of two numbers: Infinity, -Infinity and NaN for a zero divisor
Divide(a, b) ==
  IF b # 0 THEN [kind |-> "number", num |-> a, den |-> b]
  ELSE IF a = 0 THEN [kind |-> "NaN", num |-> 0, den |-> 0]
  ELSE [kind |-> "Infinity", num |-> a, den |-> 0]

\* q * k
Times(q, k) == IF q.kind = "number" THEN [q EXCEPT !.num = @ * k] ELSE q

Zero == [kind |-> "number", num |-> 0, den |-> 1]

\* ((curr - prev) / prev) * 100 whatever prev is
percentChangeUnguarded(curr, prev) == Times(Divide(curr - prev, prev), 100)

\* prev > 0 ? ((curr - prev) / prev) * 100 : 0
percentChange(curr, prev) == IF prev > 0 THEN Times(Divide(curr - prev, prev), 100) ELSE Zero

\* {current, previous, change} of one count
Delta(curr, prev) == [current |-> curr, previous |-> prev, change |-> curr - prev]

ThresholdDeltas(curr, prev) ==
  [k \in {"1Mto5M", "5Mto25M", "over25M"} |->
     Delta(curr.exchangeThresholds[k], prev.exchangeThresholds[k])]

\* the changes object of GET /weekly
weeklyChanges(curr, prev) ==
  [volume |-> [current |-> curr.volume7Day, previous |-> prev.volume7Day,
               change |-> curr.volume7Day - prev.volume7Day,
               percentChange |-> percentChange(curr.volume7Day, prev.volume7Day)],
   activeExchanges |-> Delta(curr.activeExchanges, prev.activeExchanges),
   totalPairs |-> Delta(curr.totalPairs, prev.totalPairs),
   thresholds |-> ThresholdDeltas(curr, prev)]

\* metrics.volume30Day || 0: 0 for an entry written without the field
OrZero30(m) == IF "volume30Day" \in DOMAIN m THEN m.volume30Day ELSE 0

\* the changes object of GET /monthly
monthlyChanges(curr, prev) ==
  [volume |-> [current |-> OrZero30(curr), previous |-> OrZero30(prev),
               change |-> OrZero30(curr) - OrZero30(prev),
               percentChange |-> percentChange(OrZero30(curr), OrZero30(prev))],
   activeExchanges |-> Delta(curr.activeExchanges, prev.activeExchanges),
   totalPairs |-> Delta(curr.totalPairs, prev.totalPairs),
   thresholds |-> ThresholdDeltas(curr, prev)]

\* the first summary of the list in the place of the second-to-last
PreviousPeriodFirst(periods) == IF Len(periods) >= 2 THEN <<periods[1]>> ELSE <<>>

\* previousWeek, previousMonth: null (the empty sequence) or the second-to-last
PreviousPeriod(periods) == IF Len(periods) >= 2 THEN <<periods[Len(periods) - 1]>> ELSE <<>>

\* currentWeek, currentMonth: null or the last summary
CurrentPeriod(periods) == IF Len(periods) >= 1 THEN <<periods[Len(periods)]>> ELSE <<>>

\* GET /api/metrics/weekly at t; an exception of the read answers 500
weeklyRoute(read, t) ==
  IF read.status # "ok"
  THEN [route |-> "weekly", status |-> 500, periods |-> <<>>, current |-> <<>>,
        previous |-> <<>>, changes |-> <<>>, readAt |-> t]
  ELSE LET weekly == groupByWeek(read.entries)
           currentWeek == CurrentPeriod(weekly)
           previousWeek == PreviousPeriod(weekly)
       IN [route |-> "weekly", status |-> 200, periods |-> weekly,
           current |-> currentWeek, previous |-> previousWeek,
           changes |-> IF currentWeek # <<>> /\ previousWeek # <<>>
                       THEN <<weeklyChanges(currentWeek[1].metrics, previousWeek[1].metrics)>>
                       ELSE <<>>,
           readAt |-> t]

\* GET /api/metrics/monthly at t
monthlyRoute(read, t) ==
  IF read.status # "ok"
  THEN [route |-> "monthly", status |-> 500, periods |-> <<>>, current |-> <<>>,
        previous |-> <<>>, changes |-> <<>>, readAt |-> t]
  ELSE LET monthly == groupByMonth(read.entries, t)
           currentMonth == CurrentPeriod(monthly)
           previousMonth == PreviousPeriod(monthly)
       IN [route |-> "monthly", status |-> 200, periods |-> monthly,
           current |-> currentMonth, previous |-> previousMonth,
           changes |-> IF currentMonth # <<>> /\ previousMonth # <<>>
                       THEN <<monthlyChanges(currentMonth[1].metrics, previousMonth[1].metrics)>>
                       ELSE <<>>,
           readAt |-> t]

\* ------------------------------------------------------- Depth Calculator
\* A symbol is the sequence of its characters.
USDG == <<"U", "S", "D", "G">>
USDT == <<"U", "S", "D", "T">>
USDC == <<"U", "S", "D", "C">>
USD == <<"U", "S", "D">>
EUR == <<"E", "U", "R">>

STABLECOINS == {USDG, USDT, USDC, USD, EUR}

\* character.toUpperCase(), of the characters the symbols are written in
UpperChar(c) ==
  CASE c = "u" -> "U" [] c = "s" -> "S" [] c = "d" -> "D" [] c = "g" -> "G"
    [] c = "x" -> "X" [] c = "z" -> "Z" [] c = "b" -> "B" [] c = "t" -> "T"
    [] OTHER -> c

\* symbol.toUpperCase()
toUpperCase(sym) == [i \in 1..Len(sym) |-> UpperChar(sym[i])]

\* symbol.replace(/^[XZ]/, ''): one leading X or Z, in upper case, is dropped
StripPrefix(sym) == IF sym # <<>> /\ sym[1] \in {"X", "Z"} THEN Tail(sym) ELSE sym

\* classifyPair(base, quote): quote is not read
classifyPair(base, quote) ==
  LET cleanBase == toUpperCase(StripPrefix(base))
      normalBase == toUpperCase(base)
  IN IF normalBase \in STABLECOINS \/ cleanBase \in STABLECOINS THEN "stablecoin" ELSE "risk"

\* getBpsLevels(pairType)
getBpsLevels(pairType) == IF pairType = "stablecoin" THEN <<2, 5, 10, 100>> ELSE <<10, 25, 50, 100>>

\* price >= midPrice * (1 - level / 10000), midPrice being mid2 / 2
AboveLowerBound(price, mid2, level) == price * 20000 >= mid2 * (10000 - level)

\* price <= midPrice * (1 + level / 10000)
BelowUpperBound(price, mid2, level) == price * 20000 <= mid2 * (10000 + level)

WithinBound(side, price, mid2, level) ==
  IF side = "bid" THEN AboveLowerBound(price, mid2, level) ELSE BelowUpperBound(price, mid2, level)

\* the inner loop without its break: every level within the bound is summed
RECURSIVE ScanAll(_, _, _, _)
ScanAll(side, levels, mid2, level) ==
  IF levels = <<>> THEN 0
  ELSE (IF WithinBound(side, Head(levels).price, mid2, level)
        THEN Head(levels).price * Head(levels).qty ELSE 0)
       + ScanAll(side, Tail(levels), mid2, level)

\* for (const [price, qty] of bids) { if (price >= lowerBound) total += price * qty; else break; }
RECURSIVE Scan(_, _, _, _)
Scan(side, levels, mid2, level) ==
  IF levels = <<>> THEN 0
  ELSE IF WithinBound(side, Head(levels).price, mid2, level)
       THEN Head(levels).price * Head(levels).qty + Scan(side, Tail(levels), mid2, level)
       ELSE 0

\* calculateDepthMetrics(bids, asks, bpsLevels) for two non-empty sides;
\* midPrice is kept as its double, mid2, and spreadBps as a fraction
calculateDepthMetrics(bids, asks, bpsLevels) ==
  LET bestBid == bids[1].price
      bestAsk == asks[1].price
      mid2 == bestBid + bestAsk
  IN [mid2 |-> mid2,
      spreadBps |-> [num |-> (bestAsk - bestBid) * 20000, den |-> mid2],
      bidDepth |-> [l \in SeqToSet(bpsLevels) |-> Scan("bid", bids, mid2, l)],
      askDepth |-> [l \in SeqToSet(bpsLevels) |-> Scan("ask", asks, mid2, l)]]

\* ------------------------------------------------------------ Depth Route
\* EXCHANGES of routes/depth.js: the exchanges with an order book
DepthExchanges == <<"kraken", "gate", "kucoin", "bitmart", "okx">>

DepthExchangeNames == SeqToSet(DepthExchanges)

\* RATE_LIMITS, in ms
RATE_LIMITS ==
  [x \in DepthExchangeNames |->
     CASE x = "kraken" -> 1000 [] x = "gate" -> 100 [] x = "kucoin" -> 200
       [] x = "bitmart" -> 250 [] OTHER -> 150]

\* the pairs a service lists, with the legs as the exchange writes them
TrackedPairs ==
  << [symbol |-> "USDG/USD", base |-> <<"Z", "U", "S", "D", "G">>, quote |-> <<"Z", "U", "S", "D">>],
     [symbol |-> "BTC/USDG", base |-> <<"X", "B", "T", "C">>, quote |-> USDG] >>

\* extractBaseQuote(pair, exchangeName): Kraken's legs lose a leading X or Z
\* and are put in upper case, the others are the parts of the symbol
extractBaseQuote(pair, exchangeName) ==
  IF exchangeName = "kraken"
  THEN [base |-> toUpperCase(StripPrefix(pair.base)), quote |-> toUpperCase(StripPrefix(pair.quote))]
  ELSE [base |-> pair.base, quote |-> pair.quote]

\* what service.getUSDGPairs() settles with
PairsOutcomes(budget) ==
  {[status |-> "rejected", pairs |-> <<>>]} \cup
  {[status |-> "fulfilled", pairs |-> SubSeq(TrackedPairs, 1, n)] :
     n \in 0..(IF budget < Len(TrackedPairs) THEN budget ELSE Len(TrackedPairs))}

\* what service.getOrderbook(symbol) settles with
BookOutcomes ==
  {[status |-> "rejected", bids |-> <<>>, asks |-> <<>>]} \cup
  {[status |-> "fulfilled", bids |-> b, asks |-> a] :
     b \in {<<>>, <<[price |-> 9990, qty |-> 1]>>},
     a \in {<<>>, <<[price |-> 10010, qty |-> 2]>>}}

\* the row pushed for a pair with a usable book
DepthRow(exchangeName, pair, orderbook) ==
  LET bq == extractBaseQuote(pair, exchangeName)
      pairType == classifyPair(bq.base, bq.quote)
      bpsLevels == getBpsLevels(pairType)
      m == calculateDepthMetrics(orderbook.bids, orderbook.asks, bpsLevels)
  IN [exchange |-> exchangeName, pair |-> pair.symbol, pairType |-> pairType,
      mid2 |-> m.mid2, spreadBps |-> m.spreadBps, bpsLevels |-> bpsLevels,
      bidDepth |-> m.bidDepth, askDepth |-> m.askDepth]

\* the loop of one exchange before getUSDGPairs() has settled
LoopStart == [phase |-> "pairs", listed |-> FALSE, pairs |-> <<>>, idx |-> 0, rows |-> <<>>,
              calls |-> <<>>, events |-> <<>>]

\* the for loop takes up its next pair and requests its order book, or ends
NextPair(loop) ==
  IF loop.idx < Len(loop.pairs)
  THEN [loop EXCEPT !.phase = "book", !.idx = @ + 1, !.events = Append(@, "request")]
  ELSE [loop EXCEPT !.phase = "done"]

\* getUSDGPairs() settles: a rejection ends the loop of the exchange
pairsSettled(loop, outcome) ==
  IF outcome.status = "rejected" THEN [loop EXCEPT !.phase = "done"]
  ELSE NextPair([loop EXCEPT !.listed = TRUE, !.pairs = outcome.pairs])

BookKind(outcome) ==
  CASE outcome.status = "rejected" -> "error"
    [] outcome.bids = <<>> \/ outcome.asks = <<>> -> "empty"
    [] OTHER -> "usable"

\* an empty side gives a row of zeros, and the loop goes on as after a row
orderbookSettledZeroFills(exchangeName, loop, outcome) ==
  LET pair == loop.pairs[loop.idx]
      called == [loop EXCEPT !.calls = Append(@, [symbol |-> pair.symbol, kind |-> BookKind(outcome)])]
  IN IF BookKind(outcome) = "error" THEN NextPair(called)
     ELSE LET usable == [outcome EXCEPT !.bids = IF @ = <<>> THEN <<[price |-> 0, qty |-> 0]>> ELSE @,
                                        !.asks = IF @ = <<>> THEN <<[price |-> 0, qty |-> 0]>> ELSE @]
              pushed == [called EXCEPT !.rows = Append(@, DepthRow(exchangeName, pair, usable))]
          IN IF Len(loop.pairs) > 1 THEN [pushed EXCEPT !.phase = "delay"] ELSE NextPair(pushed)

\* getOrderbook() settles: an exception is caught and logged, an empty side
\* makes the loop continue, a usable book gives a row and, when the exchange
\* has more than one pair, the delay
orderbookSettled(exchangeName, loop, outcome) ==
  LET pair == loop.pairs[loop.idx]
      called == [loop EXCEPT !.calls = Append(@, [symbol |-> pair.symbol, kind |-> BookKind(outcome)])]
  IN CASE BookKind(outcome) = "error" -> NextPair(called)
       [] BookKind(outcome) = "empty" -> NextPair(called)
       [] OTHER ->
            LET pushed == [called EXCEPT !.rows = Append(@, DepthRow(exchangeName, pair, outcome))]
            IN IF Len(loop.pairs) > 1 THEN [pushed EXCEPT !.phase = "delay"] ELSE NextPair(pushed)

\* await delay(RATE_LIMITS[exchangeName]) is over
delayElapsed(exchangeName, loop) ==
  NextPair([loop EXCEPT !.events = Append(@, "delay")])

\* a.exchange.localeCompare(b.exchange), a.pair.localeCompare(b.pair): the
\* places of the names in their order
ExchangeRank(x) ==
  CASE x = "bitmart" -> 1 [] x = "gate" -> 2 [] x = "kraken" -> 3 [] x = "kucoin" -> 4 [] OTHER -> 5

PairRank(symbol) == IF symbol = "BTC/USDG" THEN 1 ELSE 2

RowBefore(a, b) ==
  \/ ExchangeRank(a.exchange) < ExchangeRank(b.exchange)
  \/ ExchangeRank(a.exchange) = ExchangeRank(b.exchange) /\ PairRank(a.pair) < PairRank(b.pair)

\* results.sort(by exchange, then by pair); stable
RECURSIVE InsertRow(_, _)
InsertRow(sorted, r) ==
  IF sorted = <<>> THEN <<r>>
  ELSE IF RowBefore(r, Head(sorted)) THEN <<r>> \o sorted
  ELSE <<Head(sorted)>> \o InsertRow(Tail(sorted), r)

RECURSIVE SortRows(_)
SortRows(s) ==
  IF s = <<>> THEN <<>>
  ELSE InsertRow(SortRows(SubSeq(s, 1, Len(s) - 1)), s[Len(s)])

\* results.push(...exchangeResults) for the exchanges in the order of EXCHANGES
RECURSIVE AllResults(_, _)
AllResults(loops, i) ==
  IF i > Len(DepthExchanges) THEN <<>>
  ELSE loops[DepthExchanges[i]].rows \o AllResults(loops, i + 1)

\* ---------------------------------------------------------- Cached Routes
\* CACHE_TTL = 5 * 60 * 1000 ms; the clock of the cached routes counts minutes
CACHE_TTL == 5

\* what a request may carry as :exchange: a known exchange, a name no
\* exchange has, the word the aggregated route keys its cache with, and the
\* name of a property every object inherits
ExchangeParams == {"kraken", "nasdaq", "aggregated", "constructor"}

ObjectPrototypeKeys == {"constructor"}

ApiRequests ==
  {[route |-> r, exchange |-> x] : r \in {"volume", "pairs"}, x \in ExchangeParams}
    \cup {[route |-> "aggregated", exchange |-> "none"], [route |-> "depth", exchange |-> "none"]}

\* cacheKey: `volume_${exchange}`, `pairs_${exchange}`, 'volume_aggregated',
\* 'depth_all', as the pair of the parts around the underscore. The Map of
\* routes/depth.js holds the one key no other route uses.
cacheKey(req) ==
  CASE req.route = "aggregated" -> <<"volume", "aggregated">>
    [] req.route = "depth" -> <<"depth", "all">>
    [] OTHER -> <<req.route, req.exchange>>

CacheKeys == {cacheKey(r) : r \in ApiRequests}

NoEntry == [present |-> FALSE, data |-> [route |-> "none", asOf |-> 0], timestamp |-> 0]

\* getCached with <= in the place of <
getCachedInclusive(cache, key, t) ==
  IF cache[key].present /\ t - cache[key].timestamp <= CACHE_TTL
  THEN [hit |-> TRUE, data |-> cache[key].data]
  ELSE [hit |-> FALSE, data |-> NoEntry.data]

\* getCached(key) at Date.now() = t: entry && t - entry.timestamp < CACHE_TTL
getCached(cache, key, t) ==
  IF cache[key].present /\ t - cache[key].timestamp < CACHE_TTL
  THEN [hit |-> TRUE, data |-> cache[key].data]
  ELSE [hit |-> FALSE, data |-> NoEntry.data]

\* setCache(key, data) at Date.now() = t
setCache(cache, key, data, t) ==
  [cache EXCEPT ![key] = [present |-> TRUE, data |-> data, timestamp |-> t]]

\* services[exchange.toLowerCase()]: a service, undefined, or a property
\* that the object literal inherits from Object.prototype
LookupService(exchange) ==
  CASE exchange \in ExchangeNames -> "service"
    [] exchange \in ObjectPrototypeKeys -> "inherited"
    [] OTHER -> "undefined"

ApiStart ==
  [clock |-> 0, cache |-> [k \in CacheKeys |-> NoEntry], inflight |-> [k \in CacheKeys |-> 0],
   requests |-> 0, calls |-> 0,
   response |-> [kind |-> "none", status |-> 0, req |-> [route |-> "none", exchange |-> "none"],
                 data |-> NoEntry.data]]

Respond(kind, status, req, data) == [kind |-> kind, status |-> status, req |-> req, data |-> data]

\* the handler of a request up to its first await: the cache is looked up
\* first; a per-exchange route then looks up the service, answers 400 when
\* there is none, and calls it inside its try (a value that is no service
\* throws a TypeError there, which the catch answers with 500)
handleRequest(a, req) ==
  LET key == cacheKey(req)
      cached == getCached(a.cache, key, a.clock)
      counted == [a EXCEPT !.requests = @ + 1]
      fetching == [counted EXCEPT !.inflight[key] = @ + 1, !.calls = @ + 1,
                                  !.response = Respond("fetching", 0, req, NoEntry.data)]
  IN IF cached.hit
     THEN [counted EXCEPT !.response = Respond("cache", 200, req, cached.data)]
     ELSE IF req.route \in {"aggregated", "depth"} THEN fetching
     ELSE CASE LookupService(req.exchange) = "undefined" ->
                 [counted EXCEPT !.response = Respond("unknown", 400, req, NoEntry.data)]
            [] LookupService(req.exchange) = "inherited" ->
                 [counted EXCEPT !.response = Respond("TypeError", 500, req, NoEntry.data)]
            [] OTHER -> fetching

\* the handler after its await: setCache and res.json, or the catch
fetchSettled(a, key, route, ok) ==
  LET req == [route |-> route, exchange |-> IF route \in {"volume", "pairs"} THEN key[2] ELSE "none"]
      data == [route |-> route, asOf |-> a.clock]
      landed == [a EXCEPT !.inflight[key] = @ - 1]
  IN IF ok
     THEN [landed EXCEPT !.cache = setCache(@, key, data, a.clock),
                         !.response = Respond("fetched", 200, req, data)]
     ELSE [landed EXCEPT !.response = Respond("error", 500, req, NoEntry.data)]

\* the route that fetches under a key
RouteOfKey(key) ==
  CASE key = <<"volume", "aggregated">> -> "aggregated"
    [] key = <<"depth", "all">> -> "depth"
    [] OTHER -> key[1]

\* ------------------------------------------- specification: one aggregation
Pending == [status |-> "pending"]
NoOutput == [failed |-> FALSE, dailyVolume |-> <<>>, exchanges |-> <<>>, pairsByExchange |-> EmptyMap]

PointsUsed == SumSeq([i \in 1..Len(EXCHANGES) |->
                 IF settled[EXCHANGES[i]].status = "fulfilled"
                 THEN Len(settled[EXCHANGES[i]].dailyVolume) ELSE 0])

SettledOutcomes == [i \in 1..Len(EXCHANGES) |-> settled[EXCHANGES[i]]]

NoMetrics == [volume7Day |-> 0, volume30Day |-> 0, activeExchanges |-> 0, totalPairs |-> 0,
              exchangeThresholds |-> [k \in {"1Mto5M", "5Mto25M", "over25M"} |-> 0]]

AggIdle ==
  /\ settled = [x \in ExchangeNames |-> Pending]
  /\ aggPc = "idle"
  /\ aggOut = NoOutput

\* The state of the backfill script. prevWeeks is the argument of the run
\* before (0 when there was none); it outlives a run.
BfIdle == [pc |-> "idle", weeks |-> 0, content |-> <<>>, existing |-> {}, file |-> <<>>,
           written |-> <<>>, attempted |-> {}, added |-> 0, skipped |-> 0,
           dailyVolume |-> <<>>, prevWeeks |-> 0]

NoRead == [status |-> "none", content |-> <<>>, entries |-> <<>>]

LogIdle ==
  /\ now = 0
  /\ logFile = <<>>
  /\ jobsRunning = 0
  /\ cronFired = FALSE
  /\ lastRun = "none"
  /\ bf = BfIdle
  /\ readOut = NoRead

MetIdle ==
  /\ series = <<>>
  /\ mPairs = EmptyMap
  /\ averages = EmptyMap
  /\ metrics = NoMetrics
  /\ mPc = "idle"

NoSummary == [route |-> "none", status |-> 0, periods |-> <<>>, current |-> <<>>,
              previous |-> <<>>, changes |-> <<>>, readAt |-> 0]

NoCalc == [pc |-> "idle"]

DepthIdle == [pc |-> "idle", loops |-> [x \in DepthExchangeNames |-> LoopStart], rows |-> <<>>]

ApiIdle ==
  /\ summary = NoSummary
  /\ calc = NoCalc
  /\ depth = DepthIdle
  /\ api = ApiStart

AggInit ==
  /\ settled = [x \in ExchangeNames |-> Pending]
  /\ aggPc = "fetching"
  /\ aggOut = NoOutput
  /\ MetIdle
  /\ LogIdle
  /\ ApiIdle

\* one getAggregatedVolume() promise settles
Settle(x) ==
  /\ aggPc = "fetching"
  /\ settled[x].status = "pending"
  /\ \E o \in Outcomes(x, MaxPoints - PointsUsed) :
       settled' = [settled EXCEPT ![x] = o]
  /\ UNCHANGED <<aggPc, aggOut, metVars, logVars, apiVars>>

\* Promise.all settles; the merge loop and the sort run
Join ==
  /\ aggPc = "fetching"
  /\ \A x \in ExchangeNames : settled[x].status # "pending"
  /\ aggOut' = fetchAggregatedData(SettledOutcomes)
  /\ aggPc' = IF aggOut'.failed THEN "failed" ELSE "done"
  /\ UNCHANGED <<settled, metVars, logVars, apiVars>>

AggNext == (\E x \in ExchangeNames : Settle(x)) \/ Join

SpecAgg == AggInit /\ [][AggNext]_vars

\* ------------------------------------ specification: one metrics calculation
\* The unified series handed to the calculator: ordinary days on which one
\* exchange trades 1M, and days of two other kinds, each kind at most once.
\* An ordinary day follows the previous entry by one day, another by two
\* (a gap in the series).
OrdinaryDay == ("kraken" :> 1000000)

OtherDays ==
  { ("kraken" :> 1000000) @@ ("kucoin" :> 150000000) @@ ("bitmart" :> 749999999)
       @@ ("bullish" :> 29999999),
    ("kraken" :> 1000000) @@ ("gate" :> 149999999) @@ ("okx" :> 750000000) @@ ("bullish" :> 0) }

PairRosters ==
  { [x \in ExchangeNames |-> <<>>],
    [x \in ExchangeNames |-> IF x \in {"kraken", "gate"} THEN <<"USDG/USD", "BTC/USDG">> ELSE <<"USDG/USD">>] }

LastDate(s) == IF s = <<>> THEN 0 ELSE s[Len(s)].date

DayEntry(date, byExchange) ==
  [date |-> date, volume |-> SumFun(byExchange, DOMAIN byExchange), byExchange |-> byExchange]

MetInit ==
  /\ series = <<>>
  /\ mPairs = EmptyMap
  /\ averages = EmptyMap
  /\ metrics = NoMetrics
  /\ mPc = "input"
  /\ AggIdle
  /\ LogIdle
  /\ ApiIdle

AddOrdinaryDay ==
  /\ mPc = "input"
  /\ Len(series) < MaxSeriesLen
  /\ series' = Append(series, DayEntry(LastDate(series) + 1, OrdinaryDay))
  /\ UNCHANGED <<mPairs, averages, metrics, mPc, aggVars, logVars, apiVars>>

AddOtherDay ==
  /\ mPc = "input"
  /\ Len(series) < MaxSeriesLen
  /\ \E b \in OtherDays :
       /\ \A i \in 1..Len(series) : series[i].byExchange # b
       /\ series' = Append(series, DayEntry(LastDate(series) + 2, b))
  /\ UNCHANGED <<mPairs, averages, metrics, mPc, aggVars, logVars, apiVars>>

\* calculateAllMetrics({dailyVolume, exchanges, pairsByExchange})
Calculate ==
  /\ mPc = "input"
  /\ \E roster \in PairRosters :
       /\ mPairs' = roster
       /\ metrics' = calculateAllMetrics([dailyVolume |-> series, exchanges |-> EXCHANGES,
                                          pairsByExchange |-> roster])
  /\ averages' = calculateExchangeAverages(series, EXCHANGES)
  /\ mPc' = "done"
  /\ UNCHANGED <<series, aggVars, logVars, apiVars>>

MetNext == AddOrdinaryDay \/ AddOtherDay \/ Calculate

SpecMetrics == MetInit /\ [][MetNext]_vars

\* ------------------------- specification: the daily job and the backfill
\* What the six getAggregatedVolume() calls of one cycle answer, relative to
\* the day of the fetch: every call rejected; one exchange with two days of
\* candles; two exchanges, one call rejected.
FetchScenarios(today) ==
  { [i \in 1..Len(EXCHANGES) |-> Rejected],
    [i \in 1..Len(EXCHANGES) |->
       IF EXCHANGES[i] = "kraken"
       THEN Fulfilled("kraken", <<"USDG/USD">>,
                      <<[date |-> today - 1, volume |-> 30000000],
                        [date |-> today, volume |-> 60000000]>>)
       ELSE Fulfilled(EXCHANGES[i], <<>>, <<>>)],
    [i \in 1..Len(EXCHANGES) |->
       CASE EXCHANGES[i] = "kraken" ->
              Fulfilled("kraken", <<"USDG/USD", "BTC/USDG">>,
                        <<[date |-> today - 2, volume |-> 30000000],
                          [date |-> today, volume |-> 60000000]>>)
         [] EXCHANGES[i] = "gate" ->
              Fulfilled("gate", <<"USDG/USDT">>, <<[date |-> today - 1, volume |-> 150000000]>>)
         [] EXCHANGES[i] = "bullish" -> Rejected
         [] OTHER -> Fulfilled(EXCHANGES[i], <<"USDG/USD">>, <<>>)] }

LogInit ==
  /\ now = 0
  /\ logFile = <<>>
  /\ jobsRunning = 0
  /\ cronFired = FALSE
  /\ lastRun = "none"
  /\ bf = BfIdle
  /\ readOut = NoRead
  /\ AggIdle
  /\ MetIdle
  /\ ApiIdle

Tick ==
  /\ DateOf(now + 1) <= MaxDay
  /\ now' = now + 1
  /\ cronFired' = FALSE
  /\ UNCHANGED <<logFile, jobsRunning, lastRun, bf, readOut, aggVars, metVars, apiVars>>

\* cron.schedule('59 23 * * *', runMetricsJob, {timezone: 'UTC'}): the job
\* starts and awaits its fetch; the schedule lives as long as the process
CronFire ==
  /\ lastRun # "crashed"
  /\ now % TicksPerDay = TicksPerDay - 1
  /\ ~cronFired
  /\ jobsRunning < MaxRunning
  /\ cronFired' = TRUE
  /\ jobsRunning' = jobsRunning + 1
  /\ UNCHANGED <<now, logFile, lastRun, bf, readOut, aggVars, metVars, apiVars>>

\* runMetricsJob after its fetch has settled
JobFinish ==
  /\ jobsRunning > 0
  /\ lastRun # "crashed"
  /\ jobsRunning' = jobsRunning - 1
  /\ \E outcomes \in FetchScenarios(DateOf(now)), writable \in BOOLEAN :
       LET r == runMetricsJob(logFile, now, outcomes, writable)
       IN /\ r.lastRun = "ok" => Len(logFile) < MaxLog
          /\ logFile' = r.file
          /\ lastRun' = r.lastRun
  /\ UNCHANGED <<now, cronFired, bf, readOut, aggVars, metVars, apiVars>>

\* node scripts/backfillMetrics.js [weeks]: parseInt(process.argv[2]) || 4
BackfillStart ==
  /\ bf.pc = "idle"
  /\ \E weeks \in {1, DefaultWeeks} :
       bf' = [BfIdle EXCEPT !.pc = "fetching", !.weeks = weeks, !.prevWeeks = bf.prevWeeks]
  /\ UNCHANGED <<now, logFile, jobsRunning, cronFired, lastRun, readOut, aggVars, metVars, apiVars>>

\* backfill() after fetchAllHistoricalData()
BackfillRun ==
  /\ bf.pc = "fetching"
  /\ \E outcomes \in FetchScenarios(DateOf(now)) :
       LET r == backfill(bf.weeks, now, fetchAggregatedData(outcomes), logFile)
       IN /\ logFile' = r.file
          /\ bf' = [r EXCEPT !.file = <<>>, !.prevWeeks = bf.prevWeeks]
  /\ UNCHANGED <<now, jobsRunning, cronFired, lastRun, readOut, aggVars, metVars, apiVars>>

\* the script's process ends
BackfillExit ==
  /\ bf.pc \in {"complete", "failed"}
  /\ bf' = [BfIdle EXCEPT !.prevWeeks = bf.weeks]
  /\ UNCHANGED <<now, logFile, jobsRunning, cronFired, lastRun, readOut, aggVars, metVars, apiVars>>

LogNext == Tick \/ CronFire \/ JobFinish \/ BackfillStart \/ BackfillRun \/ BackfillExit

SpecLog == LogInit /\ [][LogNext]_vars

\* ------------------------------------- specification: reading a log file
\* The lines a file may hold: LogEntries of any instant, in any order, the
\* text null, empty lines, and text that is not JSON.
ReadLines ==
  {LogLine(ts, NoMetrics) : ts \in 0..3} \cup
  {[kind |-> k, timestamp |-> 0, metrics |-> NoMetrics] : k \in {"garbage", "empty", "null"}}

ReadInit ==
  /\ now = 0
  /\ logFile = <<>>
  /\ jobsRunning = 0
  /\ cronFired = FALSE
  /\ lastRun = "none"
  /\ bf = BfIdle
  /\ readOut = NoRead
  /\ AggIdle
  /\ MetIdle
  /\ ApiIdle

WriteLine ==
  /\ readOut.status = "none"
  /\ bf.pc = "idle"
  /\ Len(logFile) < MaxLines
  /\ \E l \in ReadLines : logFile' = Append(logFile, l)
  /\ UNCHANGED <<now, jobsRunning, cronFired, lastRun, bf, readOut, aggVars, metVars, apiVars>>

\* GET /api/metrics: readMetricsLog()
ReadLog ==
  /\ readOut.status = "none"
  /\ readOut' = readMetricsLog(logFile)
  /\ UNCHANGED <<now, logFile, jobsRunning, cronFired, lastRun, bf, aggVars, metVars, apiVars>>

\* backfill(): "Read existing log to avoid duplicates"
ReadExisting ==
  /\ bf.pc = "idle"
  /\ bf' = [BfIdle EXCEPT !.pc = "running", !.content = logFile,
                          !.existing = ExistingTimestamps(logFile)]
  /\ UNCHANGED <<now, logFile, jobsRunning, cronFired, lastRun, readOut, aggVars, metVars, apiVars>>

ReadNext == WriteLine \/ ReadLog \/ ReadExisting

SpecRead == ReadInit /\ [][ReadNext]_vars

\* ------------------------- specification: backfill runs over a kept log
\* The log the daily job has left behind over the seven days before today:
\* on each day the job wrote no line, a line stamped 23:59, or a line stamped
\* earlier in the day (a run that ended after midnight stamps the next day).
HistoryChoices == [1..7 -> {"none", "at2359", "early"}]

HistoryLog(c) ==
  LET line(k) ==
        CASE c[k] = "at2359" -> LogLine(At2359(k - 8), NoMetrics)
          [] c[k] = "early" -> LogLine((k - 8) * TicksPerDay, NoMetrics)
          [] OTHER -> [kind |-> "empty", timestamp |-> 0, metrics |-> NoMetrics]
  IN NonEmptyLines([k \in 1..7 |-> line(k)])

HistoryInit ==
  /\ now \in 0..(TicksPerDay - 1)
  /\ \E c \in HistoryChoices : logFile = HistoryLog(c)
  /\ jobsRunning = 0
  /\ cronFired = FALSE
  /\ lastRun = "none"
  /\ bf = BfIdle
  /\ readOut = NoRead
  /\ AggIdle
  /\ MetIdle
  /\ ApiIdle

BackfillNext == BackfillStart \/ BackfillRun \/ BackfillExit

SpecBackfill == HistoryInit /\ [][BackfillNext]_vars

\* --------------------------- specification: the weekly and monthly views
\* The instants at which the clock stands, as [day, tick of the day]: the
\* Sunday 1969-12-28 at 00:00, Wednesday 1969-12-31, Saturday 1970-01-03 at
\* 23:59 (one week over the turn of the year), Sunday 1970-01-04 (the next
\* week), Sunday 1970-03-29 and Wednesday 1970-04-01 (one week over the turn
\* of a month).
SummaryInstants ==
  { (0 - 4) * TicksPerDay, At2359(0 - 1), At2359(2), 3 * TicksPerDay, At2359(3),
    At2359(87), 90 * TicksPerDay, At2359(90) }

\* The metrics of a logged entry: all zero; a busy day; an entry written
\* before volume30Day was part of the metrics.
SummaryMetrics ==
  { NoMetrics,
    [volume7Day |-> 70, volume30Day |-> 300, activeExchanges |-> 2, totalPairs |-> 5,
     exchangeThresholds |-> [k \in {"1Mto5M", "5Mto25M", "over25M"} |->
                               IF k = "1Mto5M" THEN 1 ELSE 0]],
    [volume7Day |-> 30, activeExchanges |-> 1, totalPairs |-> 2,
     exchangeThresholds |-> [k \in {"1Mto5M", "5Mto25M", "over25M"} |-> 0]] }

SummaryInit ==
  /\ now = (0 - 4) * TicksPerDay
  /\ logFile = <<>>
  /\ jobsRunning = 0
  /\ cronFired = FALSE
  /\ lastRun = "none"
  /\ bf = BfIdle
  /\ readOut = NoRead
  /\ AggIdle
  /\ MetIdle
  /\ ApiIdle

\* time passes
ClockAdvance ==
  /\ summary.route = "none"
  /\ \E t \in SummaryInstants : t > now /\ now' = t
  /\ UNCHANGED <<logFile, jobsRunning, cronFired, lastRun, bf, readOut, summary, calc, depth,
                 api, aggVars, metVars>>

\* appendToLog(metrics) at the present instant
AppendEntry ==
  /\ summary.route = "none"
  /\ Len(logFile) < MaxEntries
  /\ \E m \in SummaryMetrics : logFile' = appendToLog(logFile, now, m)
  /\ UNCHANGED <<now, jobsRunning, cronFired, lastRun, bf, readOut, summary, calc, depth,
                 api, aggVars, metVars>>

\* GET /api/metrics/weekly
GetWeekly ==
  /\ summary.route = "none"
  /\ readOut' = readMetricsLog(logFile)
  /\ summary' = weeklyRoute(readOut', now)
  /\ UNCHANGED <<now, logFile, jobsRunning, cronFired, lastRun, bf, calc, depth, api, aggVars, metVars>>

\* GET /api/metrics/monthly
GetMonthly ==
  /\ summary.route = "none"
  /\ readOut' = readMetricsLog(logFile)
  /\ summary' = monthlyRoute(readOut', now)
  /\ UNCHANGED <<now, logFile, jobsRunning, cronFired, lastRun, bf, calc, depth, api, aggVars, metVars>>

\* res.json(...): the response is on its way and the handler is over
ResponseSent ==
  /\ summary.route # "none"
  /\ summary' = NoSummary
  /\ readOut' = NoRead
  /\ UNCHANGED <<now, logFile, jobsRunning, cronFired, lastRun, bf, calc, depth, api, aggVars, metVars>>

SummaryNext == ClockAdvance \/ AppendEntry \/ GetWeekly \/ GetMonthly \/ ResponseSent

SpecSummary == SummaryInit /\ [][SummaryNext]_vars

\* --------------------------------- specification: the depth utilities
\* The symbols a leg is written as: the stablecoins, other assets, and forms
\* with a leading X or Z in either case.
Symbols ==
  { USDG, USD, USDT, EUR, <<"B", "T", "C">>, <<"X", "B", "T">>, <<"X", "X", "B", "T">>,
    <<"Z", "U", "S", "D">>, <<"z", "u", "s", "d">>, <<"u", "s", "d", "g">>,
    <<"X", "U", "S", "D", "G">> }

\* The price levels of one side of a book, in any order: a bid at the 10 bps
\* bound of a mid price of 10000, one just beyond it, one at the mid price;
\* the same for the asks.
BidPrices == {9990, 9989, 10000}
AskPrices == {10010, 10011, 10000}

Side(prices) ==
  UNION { [1..n -> [price : prices, qty : {1, 2}]] : n \in 1..MaxLevels }

CalcInit ==
  /\ calc = [pc |-> "input"]
  /\ summary = NoSummary
  /\ depth = DepthIdle
  /\ api = ApiStart
  /\ AggIdle
  /\ MetIdle
  /\ LogIdle

\* classifyPair(base, quote) and getBpsLevels(pairType) of the result
ClassifyPair ==
  /\ calc.pc = "input"
  /\ \E base \in Symbols, quote \in Symbols :
       calc' = [pc |-> "classified", base |-> base, quote |-> quote,
                pairType |-> classifyPair(base, quote),
                bpsLevels |-> getBpsLevels(classifyPair(base, quote))]
  /\ UNCHANGED <<summary, depth, api, aggVars, metVars, logVars>>

\* calculateDepthMetrics(bids, asks, bpsLevels)
CalculateDepth ==
  /\ calc.pc = "input"
  /\ \E bids \in Side(BidPrices), asks \in Side(AskPrices), pairType \in {"stablecoin", "risk"} :
       calc' = [pc |-> "done", pairType |-> pairType, bpsLevels |-> getBpsLevels(pairType),
                bids |-> bids, asks |-> asks,
                metrics |-> calculateDepthMetrics(bids, asks, getBpsLevels(pairType))]
  /\ UNCHANGED <<summary, depth, api, aggVars, metVars, logVars>>

CalcNext == ClassifyPair \/ CalculateDepth

SpecCalc == CalcInit /\ [][CalcNext]_vars

\* ------------------------------------- specification: one depth request
DepthInit ==
  /\ depth = [DepthIdle EXCEPT !.pc = "fetching"]
  /\ summary = NoSummary
  /\ calc = NoCalc
  /\ api = ApiStart
  /\ AggIdle
  /\ MetIdle
  /\ LogIdle

PairsListed == SumFun([x \in DepthExchangeNames |-> Len(depth.loops[x].pairs)], DepthExchangeNames)

\* service.getUSDGPairs() of one exchange settles
PairsSettle(x) ==
  /\ depth.pc = "fetching"
  /\ depth.loops[x].phase = "pairs"
  /\ \E o \in PairsOutcomes(MaxBooks - PairsListed) :
       depth' = [depth EXCEPT !.loops[x] = pairsSettled(@, o)]
  /\ UNCHANGED <<summary, calc, api, aggVars, metVars, logVars>>

\* service.getOrderbook(pair.symbol) of one exchange settles
BookSettle(x) ==
  /\ depth.pc = "fetching"
  /\ depth.loops[x].phase = "book"
  /\ \E o \in BookOutcomes :
       depth' = [depth EXCEPT !.loops[x] = orderbookSettled(x, @, o)]
  /\ UNCHANGED <<summary, calc, api, aggVars, metVars, logVars>>

\* the timer of delay(RATE_LIMITS[x]) fires
DelayElapsed(x) ==
  /\ depth.pc = "fetching"
  /\ depth.loops[x].phase = "delay"
  /\ depth' = [depth EXCEPT !.loops[x] = delayElapsed(x, @)]
  /\ UNCHANGED <<summary, calc, api, aggVars, metVars, logVars>>

\* Promise.all settles: the rows are gathered, sorted and sent
DepthRespond ==
  /\ depth.pc = "fetching"
  /\ \A x \in DepthExchangeNames : depth.loops[x].phase = "done"
  /\ depth' = [depth EXCEPT !.pc = "responded", !.rows = SortRows(AllResults(depth.loops, 1))]
  /\ UNCHANGED <<summary, calc, api, aggVars, metVars, logVars>>

DepthNext ==
  \/ \E x \in DepthExchangeNames : PairsSettle(x)
  \/ \E x \in DepthExchangeNames : BookSettle(x)
  \/ \E x \in DepthExchangeNames : DelayElapsed(x)
  \/ DepthRespond

SpecDepth == DepthInit /\ [][DepthNext]_vars

\* -------------------------------------- specification: the cached routes
CacheInit ==
  /\ api = ApiStart
  /\ summary = NoSummary
  /\ calc = NoCalc
  /\ depth = DepthIdle
  /\ AggIdle
  /\ MetIdle
  /\ LogIdle

\* a minute passes
ApiTick ==
  /\ api.clock < MaxClock
  /\ api' = [api EXCEPT !.clock = @ + 1]
  /\ UNCHANGED <<summary, calc, depth, aggVars, metVars, logVars>>

\* a request arrives and its handler runs up to its first await
ApiRequest ==
  /\ api.requests < MaxRequests
  /\ \E req \in ApiRequests : api' = handleRequest(api, req)
  /\ UNCHANGED <<summary, calc, depth, aggVars, metVars, logVars>>

\* the collaborators of one fetch in flight have answered; only the fetch of
\* a per-exchange route can reject
ApiSettle ==
  /\ \E key \in CacheKeys, ok \in BOOLEAN :
       /\ api.inflight[key] > 0
       /\ ok \/ RouteOfKey(key) \in {"volume", "pairs"}
       /\ api' = fetchSettled(api, key, RouteOfKey(key), ok)
  /\ UNCHANGED <<summary, calc, depth, aggVars, metVars, logVars>>

CacheNext == ApiTick \/ ApiRequest \/ ApiSettle

SpecCache == CacheInit /\ [][CacheNext]_vars

\* ------------------------------------------------------------------ claims
IsFulfilledWith(x, d) ==
  /\ settled[x].status = "fulfilled"
  /\ \E i \in 1..Len(settled[x].dailyVolume) : settled[x].dailyVolume[i].date = d

InputDates == {d \in AggDates : \E x \in ExchangeNames : IsFulfilledWith(x, d)}

\* C1: every date of the aggregator's output has volume equal to the sum of
\* the values of its byExchange map.
VolumeIsSumOfByExchange ==
  aggPc = "done" =>
    \A i \in 1..Len(aggOut.dailyVolume) :
      LET e == aggOut.dailyVolume[i]
      IN e.volume = SumFun(e.byExchange, DOMAIN e.byExchange)

VolumeIsSumWitness ==
  /\ aggPc = "done"
  /\ \E i \in 1..Len(aggOut.dailyVolume) :
       Cardinality(DOMAIN aggOut.dailyVolume[i].byExchange) >= 2

\* C2: the output holds exactly one entry per distinct date of the inputs,
\* in ascending date order.
OutputDatesDistinctSorted ==
  aggPc = "done" =>
    LET dv == aggOut.dailyVolume
    IN /\ {dv[i].date : i \in 1..Len(dv)} = InputDates
       /\ Len(dv) = Cardinality(InputDates)
       /\ \A i \in 1..(Len(dv) - 1) : dv[i].date < dv[i + 1].date

\* the Map met a later date before an earlier one
OutputDatesWitness ==
  /\ aggPc = "done"
  /\ Len(aggOut.dailyVolume) >= 2
  /\ \E i, j \in 1..Len(EXCHANGES) :
       /\ i < j
       /\ \E d1, d2 \in AggDates :
            /\ d2 < d1
            /\ IsFulfilledWith(EXCHANGES[i], d1)
            /\ IsFulfilledWith(EXCHANGES[j], d2)
            /\ \A k \in 1..i : ~IsFulfilledWith(EXCHANGES[k], d2)

\* C3: a rejected getAggregatedVolume does not fail the cycle; the exchange
\* contributes no pair and no volume, and the output is the one obtained had
\* the exchange answered with an empty result.
AsIfEmpty == [i \in 1..Len(EXCHANGES) |->
               IF settled[EXCHANGES[i]].status = "rejected"
               THEN Fulfilled(EXCHANGES[i], <<>>, <<>>)
               ELSE settled[EXCHANGES[i]]]

FailedFetchIsEmpty ==
  /\ aggPc # "failed"
  /\ aggPc = "done" =>
       /\ aggOut = fetchAggregatedData(AsIfEmpty)
       /\ \A x \in ExchangeNames : settled[x].status = "rejected" =>
            /\ aggOut.pairsByExchange[x] = <<>>
            /\ \A i \in 1..Len(aggOut.dailyVolume) :
                 x \notin DOMAIN aggOut.dailyVolume[i].byExchange

FailedFetchWitness ==
  /\ aggPc = "done"
  /\ \E x \in ExchangeNames : settled[x].status = "rejected"
  /\ Len(aggOut.dailyVolume) >= 1

\* the entries at the last n positions of s
LastPositions(s, n) == {i \in 1..Len(s) : i > Len(s) - n}

\* C4: calculateNDayVolume(series, N), N in {7, 30}, is the sum of volume over
\* the last N positions of the series, over all of them when there are fewer
\* than N, 0 for an empty series; the dates play no part.
NDayVolumeIsLastNByPosition ==
  mPc = "done" =>
    /\ metrics.volume7Day =
         SumFun([i \in 1..Len(series) |-> series[i].volume], LastPositions(series, 7))
    /\ metrics.volume30Day =
         SumFun([i \in 1..Len(series) |-> series[i].volume], LastPositions(series, 30))
    /\ series = <<>> => metrics.volume7Day = 0 /\ metrics.volume30Day = 0

\* more than 30 entries, a gap in the dates, and the entries left out differ
\* from the ones counted
NDayVolumeWitness ==
  /\ mPc = "done"
  /\ Len(series) > 30
  /\ series[1].byExchange # OrdinaryDay
  /\ \E i \in 2..Len(series) : series[i].date > series[i - 1].date + 1

ByExchangeOrZero(e, x) == IF x \in DOMAIN e.byExchange THEN e.byExchange[x] ELSE 0

\* C5: each exchange's 30-day average is the sum of its byExchange values over
\* the last 30 entries divided by 30, whatever the number of entries.
AverageDividesByThirty ==
  mPc = "done" =>
    \A x \in ExchangeNames :
      IF series = <<>> THEN averages[x].num = 0
      ELSE /\ averages[x].den = 30
           /\ averages[x].num =
                SumFun([i \in 1..Len(series) |-> ByExchangeOrZero(series[i], x)],
                       LastPositions(series, 30))

AverageDeflatedWitness ==
  /\ mPc = "done"
  /\ Len(series) \in 1..29
  /\ \E x \in ExchangeNames : averages[x].num > 0

\* C6: every exchange average falls in exactly one of the outcomes: uncounted
\* below 1M, '1Mto5M' on [1M, 5M), '5Mto25M' on [5M, 25M), 'over25M' from 25M.
BucketOf(avg) ==
  IF avg.num < 1000000 * avg.den THEN "none"
  ELSE IF avg.num < 5000000 * avg.den THEN "1Mto5M"
  ELSE IF avg.num < 25000000 * avg.den THEN "5Mto25M"
  ELSE "over25M"

BucketsPartition ==
  mPc = "done" =>
    /\ \A k \in {"1Mto5M", "5Mto25M", "over25M"} :
         metrics.exchangeThresholds[k] =
           Cardinality({x \in ExchangeNames : BucketOf(averages[x]) = k})
    /\ metrics.exchangeThresholds["1Mto5M"] + metrics.exchangeThresholds["5Mto25M"]
         + metrics.exchangeThresholds["over25M"]
         + Cardinality({x \in ExchangeNames : BucketOf(averages[x]) = "none"})
       = Len(EXCHANGES)

BucketsBoundaryWitness ==
  /\ mPc = "done"
  /\ \E x \in ExchangeNames : averages[x].num = 1000000 * averages[x].den
  /\ \E x \in ExchangeNames : averages[x].num = 5000000 * averages[x].den
  /\ \E x \in ExchangeNames : averages[x].num = 25000000 * averages[x].den
  /\ \E x \in ExchangeNames : averages[x].num > 0 /\ BucketOf(averages[x]) = "none"

IsPrefix(s, t) == Len(s) <= Len(t) /\ SubSeq(t, 1, Len(s)) = s

\* C7: every write of the log keeps the existing lines, in place, and adds
\* lines behind them; a daily run that succeeds adds exactly one line.
LogAppendOnlyStep ==
  /\ IsPrefix(logFile, logFile')
  /\ (jobsRunning' < jobsRunning /\ lastRun' = "ok") => Len(logFile') = Len(logFile) + 1

\* C7 as a property of every step
LogAppendOnly == [][LogAppendOnlyStep]_vars

\* two daily runs have appended and a backfill has run over their lines
LogAppendOnlyWitness ==
  /\ Len(logFile) >= 2
  /\ lastRun = "ok"
  /\ bf.pc \in {"complete", "failed"}
  /\ Len(bf.content) >= 1

EntryDates(content) ==
  {DateOf(content[i].timestamp) : i \in {j \in 1..Len(content) : content[j].kind = "entry"}}

\* C10: a backfill run passes the existing-entry test, and so writes, only
\* for calendar dates of which the log it read holds no entry, whatever the
\* instants of the entries; its own lines are of pairwise different dates.
BackfillSkipsLoggedDates ==
  bf.pc \in {"complete", "failed"} =>
    /\ bf.attempted \cap EntryDates(bf.content) = {}
    /\ \A i \in 1..Len(bf.written) :
         /\ DateOf(bf.written[i].timestamp) \in bf.attempted
         /\ \A j \in 1..Len(bf.written) :
              DateOf(bf.written[i].timestamp) = DateOf(bf.written[j].timestamp) => i = j

\* the run skipped a date whose entry was written at another instant than
\* the 23:59 the backfill would give it, and went on to a date without entry
BackfillSkipsWitness ==
  /\ bf.pc \in {"complete", "failed"}
  /\ bf.skipped >= 1
  /\ bf.attempted # {}
  /\ \E i \in 1..Len(bf.content) :
       /\ bf.content[i].kind = "entry"
       /\ bf.content[i].timestamp # At2359(DateOf(bf.content[i].timestamp))
       /\ \E k \in 1..(bf.weeks * 7) :
            getPastDates(bf.weeks, now)[k].dateStr = DateOf(bf.content[i].timestamp)

CountStamp(entries, ts) == Cardinality({i \in 1..Len(entries) : entries[i].timestamp = ts})

EntryLines(content) == SelectSeq(content, LAMBDA l : l.kind = "entry")

\* C8: a read that returns hands back the entries of the file in ascending
\* timestamp order, whatever the order of the lines.
ReadReturnsAscending ==
  readOut.status = "ok" =>
    /\ \A i \in 1..(Len(readOut.entries) - 1) :
         readOut.entries[i].timestamp <= readOut.entries[i + 1].timestamp
    /\ (\A i \in 1..Len(readOut.entries) : ~readOut.entries[i].isNull) =>
         \A ts \in 0..3 : CountStamp(readOut.entries, ts) = CountStamp(EntryLines(readOut.content), ts)

ReadAscendingWitness ==
  /\ readOut.status = "ok"
  /\ Len(readOut.entries) >= 2
  /\ \E i, j \in 1..Len(readOut.content) :
       /\ i < j
       /\ readOut.content[i].kind = "entry"
       /\ readOut.content[j].kind = "entry"
       /\ readOut.content[i].timestamp > readOut.content[j].timestamp

\* C9: for every content of the file the read completes without error, and
\* every LogEntry of the file is returned whatever the other lines are.
ReadToleratesAnyContent ==
  /\ readOut.status \in {"none", "ok"}
  /\ readOut.status = "ok" =>
       \A ts \in 0..3 :
         CountStamp(SelectSeq(readOut.entries, LAMBDA e : ~e.isNull), ts)
           = CountStamp(EntryLines(readOut.content), ts)

\* the calendar dates a run with argument weeks, started at t, is to cover
TargetDates(weeks, t) == {DateOf(t) - k : k \in 1..(weeks * 7)}

\* C11: a run of the backfill that is not the first, has the argument of the
\* run before it and finds an entry in the log for every date of its range
\* skips every date, adds nothing and leaves the file as it was.
BackfillIdempotentStep ==
  ( /\ bf.pc = "fetching"
    /\ bf'.pc # "fetching"
    /\ bf.prevWeeks = bf.weeks
    /\ TargetDates(bf.weeks, now) \subseteq EntryDates(logFile) )
  => /\ logFile' = logFile
     /\ bf'.pc = "complete"
     /\ bf'.added = 0
     /\ bf'.skipped = bf.weeks * 7
     /\ bf'.attempted = {}

\* C11 as a property of every step
BackfillIdempotent == [][BackfillIdempotentStep]_vars

\* a second run with the same argument has completed over a range that the
\* log covers, one of its entries stamped at another instant than 23:59
BackfillIdempotentWitness ==
  /\ bf.pc = "complete"
  /\ bf.prevWeeks = bf.weeks
  /\ bf.skipped = bf.weeks * 7
  /\ TargetDates(bf.weeks, now) \subseteq EntryDates(bf.content)
  /\ \E i \in 1..Len(bf.content) :
       bf.content[i].timestamp # At2359(DateOf(bf.content[i].timestamp))

\* the sum of the volumes of the last n entries dated on or before targetDate
TruncatedVolume(dailyVolume, targetDate, n) ==
  LET upTo == SelectSeq(dailyVolume, LAMBDA d : d.date <= targetDate)
      from == IF Len(upTo) > n THEN Len(upTo) - n + 1 ELSE 1
  IN SumSeq([i \in 1..(Len(upTo) - from + 1) |-> upTo[from + i - 1].volume])

HasDataUpTo(dailyVolume, targetDate) ==
  \E i \in 1..Len(dailyVolume) : dailyVolume[i].date <= targetDate

\* C12: for every target date the run took up and for which the series has
\* data, the run produces a snapshot whose 7-day and 30-day volume are the
\* sums of the last 7 and 30 entries dated on or before the target date.
BackfillSnapshotFromTruncatedSeries ==
  bf.pc \in {"complete", "failed"} =>
    \A d \in bf.attempted :
      HasDataUpTo(bf.dailyVolume, d) =>
        \E j \in 1..Len(bf.written) :
          /\ DateOf(bf.written[j].timestamp) = d
          /\ bf.written[j].metrics.volume7Day = TruncatedVolume(bf.dailyVolume, d, Days7)
          /\ bf.written[j].metrics.volume30Day = TruncatedVolume(bf.dailyVolume, d, Days30)

\* C13: when a run with argument weeks has ended, every one of the weeks * 7
\* days ending yesterday that had no entry and has data is covered by a line
\* of the run stamped 23:59 UTC of that day.
BackfillCoversDaysBeforeToday ==
  bf.pc \in {"complete", "failed"} =>
    \A d \in TargetDates(bf.weeks, now) :
      (d \notin EntryDates(bf.content) /\ HasDataUpTo(bf.dailyVolume, d)) =>
        \E j \in 1..Len(bf.written) : bf.written[j].timestamp = At2359(d)

\* day number 3, 1970-01-04, is a Sunday
IsSunday(date) == (date - 3) % 7 = 0

SundayAtOrBefore(date) == CHOOSE d \in (date - 6)..date : IsSunday(d)

WeeksWithEntries(content) ==
  {SundayAtOrBefore(DateOf(EntryLines(content)[i].timestamp)) : i \in 1..Len(EntryLines(content))}

\* C14: the weekly list holds one summary for each week (Sunday to Saturday,
\* UTC) in which the log has an entry and none besides; the summary of a week
\* is an entry of that week of the latest timestamp, and the list ascends by
\* week start.
WeeklyOnePerWeekLatest ==
  (summary.route = "weekly" /\ summary.status = 200) =>
    LET entries == EntryLines(readOut.content)
        weekly == summary.periods
    IN /\ Len(weekly) = Cardinality(WeeksWithEntries(readOut.content))
       /\ \A i \in 1..Len(weekly) :
            /\ weekly[i].weekStart \in WeeksWithEntries(readOut.content)
            /\ weekly[i].weekEnd = weekly[i].weekStart + 6
            /\ \A j \in 1..Len(weekly) : i < j => weekly[i].weekStart < weekly[j].weekStart
            /\ \E k \in 1..Len(entries) :
                 /\ entries[k].timestamp = weekly[i].timestamp
                 /\ entries[k].metrics = weekly[i].metrics
                 /\ SundayAtOrBefore(DateOf(entries[k].timestamp)) = weekly[i].weekStart
            /\ \A k \in 1..Len(entries) :
                 SundayAtOrBefore(DateOf(entries[k].timestamp)) = weekly[i].weekStart
                   => entries[k].timestamp <= weekly[i].timestamp

\* two weeks are summarised, one of them from two entries of different
\* instants, the earlier of which is of a Sunday
WeeklyWitness ==
  /\ summary.route = "weekly"
  /\ summary.status = 200
  /\ Len(summary.periods) >= 2
  /\ \E i, j \in 1..Len(readOut.content) :
       /\ readOut.content[i].timestamp < readOut.content[j].timestamp
       /\ IsSunday(DateOf(readOut.content[i].timestamp))
       /\ SundayAtOrBefore(DateOf(readOut.content[j].timestamp))
            = DateOf(readOut.content[i].timestamp)

\* the first days of the months from December 1969 to May 1970
MonthStarts == {0 - 31, 0, 31, 59, 90, 120}

SameMonth(d1, d2) == \A b \in MonthStarts : (d1 < b) <=> (d2 < b)

OfMonthOfRead(period) == SameMonth(DateOf(period.timestamp), DateOf(summary.readAt))

\* C15: the monthly list, currentMonth and previousMonth hold no entry of
\* the UTC month of the read, and changes is computed from those two.
MonthlyOmitsCurrentMonth ==
  (summary.route = "monthly" /\ summary.status = 200) =>
    /\ \A i \in 1..Len(summary.periods) : ~OfMonthOfRead(summary.periods[i])
    /\ \A i \in 1..Len(summary.current) : ~OfMonthOfRead(summary.current[i])
    /\ \A i \in 1..Len(summary.previous) : ~OfMonthOfRead(summary.previous[i])
    /\ summary.changes # <<>> =>
         /\ summary.current # <<>>
         /\ summary.previous # <<>>
         /\ summary.changes[1].activeExchanges.current = summary.current[1].metrics.activeExchanges
         /\ summary.changes[1].activeExchanges.previous = summary.previous[1].metrics.activeExchanges

\* the log holds one entry, of the month of the read, and the monthly
\* response is empty
MonthlyOmitsWitness ==
  /\ summary.route = "monthly"
  /\ summary.status = 200
  /\ Len(readOut.content) = 1
  /\ SameMonth(DateOf(readOut.content[1].timestamp), DateOf(summary.readAt))
  /\ summary.periods = <<>>
  /\ summary.current = <<>>
  /\ summary.changes = <<>>

\* C16: the percentChange of a weekly or monthly delta is a finite number,
\* and it is 0 when the volume of the previous period is 0.
PercentChangeZeroOnZeroPrevious ==
  (summary.status = 200 /\ summary.changes # <<>>) =>
    /\ summary.changes[1].volume.percentChange.kind = "number"
    /\ summary.changes[1].volume.previous = 0 =>
         summary.changes[1].volume.percentChange.num = 0

\* the previous period has volume 0 and the current one has not
PercentChangeWitness ==
  /\ summary.status = 200
  /\ summary.changes # <<>>
  /\ summary.changes[1].volume.previous = 0
  /\ summary.changes[1].volume.current > 0

PeriodVolume(route, m) == IF route = "weekly" THEN m.volume7Day ELSE OrZero30(m)

\* C17: changes is null when the list holds fewer than two summaries;
\* otherwise it compares the last summary with the second-to-last.
ChangesNullOrLastTwo ==
  summary.status = 200 =>
    LET n == Len(summary.periods)
    IN /\ n < 2 => summary.changes = <<>>
       /\ n >= 2 =>
            /\ summary.current = <<summary.periods[n]>>
            /\ summary.previous = <<summary.periods[n - 1]>>
            /\ summary.changes # <<>>
            /\ summary.changes[1].volume.current
                 = PeriodVolume(summary.route, summary.periods[n].metrics)
            /\ summary.changes[1].volume.previous
                 = PeriodVolume(summary.route, summary.periods[n - 1].metrics)
            /\ summary.changes[1].volume.change
                 = PeriodVolume(summary.route, summary.periods[n].metrics)
                   - PeriodVolume(summary.route, summary.periods[n - 1].metrics)
            /\ summary.changes[1].totalPairs
                 = Delta(summary.periods[n].metrics.totalPairs,
                         summary.periods[n - 1].metrics.totalPairs)
            /\ summary.changes[1].activeExchanges
                 = Delta(summary.periods[n].metrics.activeExchanges,
                         summary.periods[n - 1].metrics.activeExchanges)

\* three summaries, the first and the second-to-last of different metrics
ChangesLastTwoWitness ==
  /\ summary.status = 200
  /\ Len(summary.periods) = 3
  /\ summary.periods[1].metrics # summary.periods[2].metrics
  /\ summary.changes # <<>>

\* C18: a pair is 'stablecoin' exactly when the symbol of its base or of its
\* quote, a leading X or Z dropped and put in upper case, is one of USDG,
\* USDT, USDC, USD, EUR.
StablecoinIffEitherLeg ==
  calc.pc = "classified" =>
    (calc.pairType = "stablecoin"
       <=> \/ toUpperCase(StripPrefix(calc.base)) \in STABLECOINS
           \/ toUpperCase(StripPrefix(calc.quote)) \in STABLECOINS)

SumOver(levels, I) == SumFun([i \in I |-> levels[i].price * levels[i].qty], I)

\* the positions of a side before the first level beyond the bound
Before(side, levels, mid2, level) ==
  {i \in 1..Len(levels) : \A j \in 1..i : WithinBound(side, levels[j].price, mid2, level)}

Within(side, levels, mid2, level) ==
  {i \in 1..Len(levels) : WithinBound(side, levels[i].price, mid2, level)}

SortedDescending(levels) == \A i \in 1..(Len(levels) - 1) : levels[i].price >= levels[i + 1].price

SortedAscending(levels) == \A i \in 1..(Len(levels) - 1) : levels[i].price <= levels[i + 1].price

\* C19: midPrice is the mean of the first bid and the first ask; the depth
\* of a side at a band is the sum of price * qty over the levels before the
\* first one beyond the bound, which for bids sorted descending and asks
\* sorted ascending is the sum over every level within the bound.
DepthIsSumWithinBand ==
  calc.pc = "done" =>
    LET mid2 == calc.bids[1].price + calc.asks[1].price
    IN /\ calc.metrics.mid2 = mid2
       /\ DOMAIN calc.metrics.bidDepth = SeqToSet(calc.bpsLevels)
       /\ DOMAIN calc.metrics.askDepth = SeqToSet(calc.bpsLevels)
       /\ \A l \in SeqToSet(calc.bpsLevels) :
            /\ calc.metrics.bidDepth[l] = SumOver(calc.bids, Before("bid", calc.bids, mid2, l))
            /\ calc.metrics.askDepth[l] = SumOver(calc.asks, Before("ask", calc.asks, mid2, l))
            /\ SortedDescending(calc.bids) =>
                 calc.metrics.bidDepth[l] = SumOver(calc.bids, Within("bid", calc.bids, mid2, l))
            /\ SortedAscending(calc.asks) =>
                 calc.metrics.askDepth[l] = SumOver(calc.asks, Within("ask", calc.asks, mid2, l))

\* sorted asks of which one band takes the first and not the second, and
\* bids that are not sorted: at one band the first bid is beyond the bound
\* and the bid behind it, within the bound, is not counted
DepthWitness ==
  /\ calc.pc = "done"
  /\ SortedAscending(calc.asks)
  /\ Len(calc.asks) = 2
  /\ \E l \in SeqToSet(calc.bpsLevels) :
       calc.metrics.askDepth[l] = calc.asks[1].price * calc.asks[1].qty
  /\ ~SortedDescending(calc.bids)
  /\ \E l \in SeqToSet(calc.bpsLevels) :
       /\ Within("bid", calc.bids, calc.metrics.mid2, l) # {}
       /\ calc.metrics.bidDepth[l] = 0

RowsOf(x, symbol) ==
  {i \in 1..Len(depth.rows) : depth.rows[i].exchange = x /\ depth.rows[i].pair = symbol}

\* C20: in the response a pair has a row exactly when its order book came
\* with a bid and an ask, a row is never one of zeros, and every pair an
\* exchange listed has had its order book requested, whatever the books of
\* the pairs before it.
EmptyBookGivesNoRow ==
  depth.pc = "responded" =>
    /\ \A x \in DepthExchangeNames :
         LET loop == depth.loops[x]
         IN /\ Len(loop.calls) = Len(loop.pairs)
            /\ \A i \in 1..Len(loop.calls) :
                 /\ loop.calls[i].symbol = loop.pairs[i].symbol
                 /\ Cardinality(RowsOf(x, loop.calls[i].symbol))
                      = (IF loop.calls[i].kind = "usable" THEN 1 ELSE 0)
    /\ \A i \in 1..Len(depth.rows) :
         /\ depth.rows[i].mid2 > 0
         /\ \E x \in DepthExchangeNames :
              /\ depth.rows[i].exchange = x
              /\ \E k \in 1..Len(depth.loops[x].calls) :
                   depth.rows[i].pair = depth.loops[x].calls[k].symbol

\* an exchange listed two pairs; the book of the first had an empty side
\* and gave no row, the second gave its row
EmptyBookWitness ==
  /\ depth.pc = "responded"
  /\ \E x \in DepthExchangeNames :
       /\ Len(depth.loops[x].calls) = 2
       /\ depth.loops[x].calls[1].kind = "empty"
       /\ depth.loops[x].calls[2].kind = "usable"
       /\ RowsOf(x, depth.loops[x].calls[1].symbol) = {}
       /\ RowsOf(x, depth.loops[x].calls[2].symbol) # {}

\* C21: a request of a per-exchange route that names no known exchange is
\* answered 400, by the handler itself (no collaborator is called), and the
\* cache holds nothing under its key.
UnknownExchangeIsClientError ==
  ( /\ api.response.kind # "none"
    /\ api.response.req.route \in {"volume", "pairs"}
    /\ api.response.req.exchange \notin ExchangeNames )
  => /\ api.response.status = 400
     /\ api.response.kind = "unknown"
     /\ ~api.cache[cacheKey(api.response.req)].present

YoungerThanTTL(entry, t) == entry.present /\ t - entry.timestamp < CACHE_TTL

Fetches(req) == req.route \in {"aggregated", "depth"} \/ req.exchange \in ExchangeNames

\* C25: a request whose key has an entry younger than the TTL is answered
\* with the data of that entry and calls no collaborator; any other request
\* (of a route that fetches) starts a fetch of its own, whatever is in flight.
CacheStep ==
  \A req \in ApiRequests :
    (api'.requests = api.requests + 1 /\ api'.response.req = req) =>
      IF YoungerThanTTL(api.cache[cacheKey(req)], api.clock)
      THEN /\ api'.response.kind = "cache"
           /\ api'.response.data = api.cache[cacheKey(req)].data
           /\ api'.calls = api.calls
           /\ api'.inflight = api.inflight
      ELSE /\ api'.response.kind # "cache"
           /\ Fetches(req) =>
                /\ api'.response.kind = "fetching"
                /\ api'.calls = api.calls + 1
                /\ api'.inflight[cacheKey(req)] = api.inflight[cacheKey(req)] + 1

\* C25 as a property of every step
CacheMissAlwaysFetches == [][CacheStep]_vars

\* two fetches of one key are in flight, started by requests that found an
\* entry of the age of the TTL or older
CacheWitness ==
  \E key \in CacheKeys :
    /\ api.inflight[key] = 2
    /\ api.cache[key].present
    /\ api.clock - api.cache[key].timestamp >= CACHE_TTL

\* C22: a daily run that hits an exception ends without appending an entry
\* and without ending the process, and a run that finishes after a failed
\* one appends the entry of its own fetch and instant, as a run after a
\* successful one does.
FailedRunStep ==
  jobsRunning' = jobsRunning - 1 =>
    /\ lastRun' \in {"ok", "error"}
    /\ lastRun' = "error" => logFile' = logFile
    /\ lastRun' = "ok" =>
         \E outcomes \in FetchScenarios(DateOf(now)) :
           logFile' = Append(logFile,
                             LogLine(now, calculateAllMetrics(fetchAggregatedData(outcomes))))

FailedRunLeavesNextRunIntact == [][FailedRunStep]_vars

\* a run has failed on the empty log and the next day's run is in progress
FailedRunWitness ==
  /\ lastRun = "error"
  /\ logFile = <<>>
  /\ jobsRunning = 1
  /\ DateOf(now) >= 1

\* C23: for a series cut at a target date, the bucket counts the backfill
\* computes equal those of calculateAllMetrics on the cut series, with
\* fewer than 30 entries at or before the target date too.
BackfillThresholdsAsLive ==
  mPc = "done" =>
    \A k \in 1..Len(series) :
      LET cut == SubSeq(series, 1, k)
      IN MetricsForDateLocals(series[k].date, series).exchangeThresholds
           = calculateAllMetrics([dailyVolume |-> cut, exchanges |-> EXCHANGES,
                                  pairsByExchange |-> mPairs]).exchangeThresholds

\* C24: between two successive order-book requests to one exchange the
\* delay of the exchange elapses, whether the earlier request gave a usable
\* book, an empty book or an error.
DelayBetweenRequests ==
  \A x \in DepthExchangeNames :
    LET events == depth.loops[x].events
    IN \A i \in 1..(Len(events) - 1) :
         events[i] = "request" => events[i + 1] = "delay"

\* C26: at no time are two executions of runMetricsJob in progress at once.
AtMostOneRunInProgress == jobsRunning <= 1

\* C27: at every monthly read, a month with logged entries is absent from
\* the output when the read falls in that month, and is otherwise reported
\* once, by its latest-timestamped entry.
MonthReportedOnceEnded ==
  (summary.route = "monthly" /\ summary.status = 200) =>
    \A i \in 1..Len(logFile) :
      LET d == DateOf(logFile[i].timestamp)
          ofMonth == {j \in 1..Len(logFile) : SameMonth(DateOf(logFile[j].timestamp), d)}
          reported == {k \in 1..Len(summary.periods) :
                         SameMonth(DateOf(summary.periods[k].timestamp), d)}
      IN IF SameMonth(d, DateOf(summary.readAt))
         THEN reported = {}
         ELSE /\ Cardinality(reported) = 1
              /\ \A k \in reported :
                   /\ \A j \in ofMonth : summary.periods[k].timestamp >= logFile[j].timestamp
                   /\ \E j \in ofMonth :
                        /\ summary.periods[k].timestamp = logFile[j].timestamp
                        /\ summary.periods[k].metrics = logFile[j].metrics

\* a read in January 1970 of a log with two entries of December 1969 and
\* one of January: December is reported by its later entry, January is not
MonthReportedWitness ==
  /\ summary.route = "monthly"
  /\ summary.status = 200
  /\ DateOf(summary.readAt) = 3
  /\ Len(logFile) = 3
  /\ logFile[1].timestamp = (0 - 4) * TicksPerDay
  /\ logFile[2].timestamp = At2359(0 - 1)
  /\ logFile[3].timestamp = At2359(2)
  /\ Len(summary.periods) = 1
  /\ summary.periods[1].timestamp = At2359(0 - 1)

\* C28: after any interleaving of daily runs and backfill runs on a log
\* that starts empty, the log holds at most one entry per calendar date.
OneEntryPerDate ==
  \A i, j \in 1..Len(logFile) :
    (/\ logFile[i].kind = "entry"
     /\ logFile[j].kind = "entry"
     /\ DateOf(logFile[i].timestamp) = DateOf(logFile[j].timestamp)) => i = j

AllRejected == [i \in 1..Len(EXCHANGES) |-> Rejected]

\* C29: a daily run in which the fetch of every exchange fails is a
\* successful run that appends one entry whose metrics are all 0, and a
\* backfill that reads a log with such an entry neither computes nor writes
\* the date of that entry.
AllFailedRunLogsZeros ==
  /\ runMetricsJob(logFile, now, AllRejected, TRUE)
       = [file |-> Append(logFile, LogLine(now, NoMetrics)), lastRun |-> "ok"]
  /\ bf.pc \in {"complete", "failed"} =>
       \A i \in 1..Len(bf.content) :
         (bf.content[i].kind = "entry" /\ bf.content[i].metrics = NoMetrics) =>
           /\ DateOf(bf.content[i].timestamp) \notin bf.attempted
           /\ \A k \in 1..Len(bf.written) :
                DateOf(bf.written[k].timestamp) # DateOf(bf.content[i].timestamp)

\* a run has logged zeros for a day, and a backfill of a later day, whose
\* range holds that day and whose fetch has data for it, has skipped it
AllFailedRunWitness ==
  /\ bf.pc = "complete"
  /\ bf.skipped = 1
  /\ bf.content = <<LogLine(At2359(0), NoMetrics)>>
  /\ \E i \in 1..Len(bf.dailyVolume) : bf.dailyVolume[i].date = 0
  /\ logFile = bf.content

\* C30: in a snapshot of calculateAllMetrics the three bucket counts sum to
\* at most activeExchanges, activeExchanges is at most the number of known
\* exchanges, and volume7Day is at most volume30Day.
SnapshotBounds ==
  mPc = "done" =>
    LET thresholds == metrics.exchangeThresholds
    IN /\ thresholds["1Mto5M"] + thresholds["5Mto25M"] + thresholds["over25M"]
            <= metrics.activeExchanges
       /\ metrics.activeExchanges <= Len(EXCHANGES)
       /\ metrics.volume7Day <= metrics.volume30Day

\* exchanges in two buckets, one exchange active below every bucket, and
\* volume older than seven entries
SnapshotBoundsWitness ==
  /\ mPc = "done"
  /\ metrics.exchangeThresholds["5Mto25M"] >= 1
  /\ metrics.exchangeThresholds["over25M"] >= 1
  /\ metrics.exchangeThresholds["1Mto5M"] + metrics.exchangeThresholds["5Mto25M"]
       + metrics.exchangeThresholds["over25M"] < metrics.activeExchanges
  /\ metrics.volume7Day < metrics.volume30Day

====
